---- MODULE Spec2Model ----
(***************************************************************************)
(* Tracking and analytics core of the soccer tracking worker:              *)
(*   worker/analytics/possession_analyzer.py  BallPossessionAnalyzer       *)
(*   worker/tracking/advanced_tracker.py      AdvancedTrack,               *)
(*                                            AdvancedMultiObjectTracker   *)
(* The analyzer and the tracker are two objects that share no state; each  *)
(* has its own specification (SpecAnalyzer, SpecTracker).                  *)
(*                                                                         *)
(* Number representation.  Analyzer centres are kept in half pixels        *)
(* (x + w/2 becomes 2x + w), distances as squared half-pixel distances,    *)
(* scores in tenths, and possession times as frame counts (seconds * fps), *)
(* so that every comparison the code makes is made on exact integers.      *)
(***************************************************************************)
EXTENDS Integers, Sequences, FiniteSets, TLC

\* ------------------------------------------------------------------------
\* Bounds of the analyzer model
\* ------------------------------------------------------------------------
\* update_tracks calls in one run
MaxCalls == 5
\* reset calls in a row
MaxResets == 2

\* ------------------------------------------------------------------------
\* Bounds of the tracker model
\* ------------------------------------------------------------------------
\* Tracker.update calls in one run
MaxFrames == 17
\* tracks created in one run
MaxTracks == 3
\* the age up to which a track is followed (matched at most MaxAge - 1 times)
MaxAge == 2

\* ------------------------------------------------------------------------
\* Analyzer state (BallPossessionAnalyzer.__init__)
\* ------------------------------------------------------------------------
VARIABLES
    fps,                    \* self.fps
    frame_threshold,        \* self.frame_threshold
    ball_tracks,            \* self.ball_tracks
    player_tracks,          \* self.player_tracks
    possession_events,      \* self.possession_events (the possession log)
    current_possession,     \* self.current_possession: <<>> is None, <<span>> a dict
    possession_history,     \* self.possession_history
    team_possession_time,   \* self.team_possession_time (defaultdict(float)), in frames
    total_possession_time,  \* self.total_possession_time, in frames
    pass_events,            \* self.pass_events (the pass log)
    a_calls,                \* update_tracks calls made so far
    a_frame,                \* frame index of the last update_tracks call: <<>> or <<f>>
    a_increasing,           \* the frame indices since construction/reset were strictly increasing
    a_run,                  \* run of one-ball/one-player in-range frames: [player, len]
    a_resets,               \* reset calls since the last update_tracks call
    a_cleared,              \* what the first of these resets found: [events, passes, open]
    a_raised,               \* the exception the last call raised, or "none"
    a_op                    \* the operation that produced this state

analyzerVars == <<fps, frame_threshold, ball_tracks, player_tracks, possession_events,
                  current_possession, possession_history, team_possession_time,
                  total_possession_time, pass_events, a_calls, a_frame, a_increasing,
                  a_run, a_resets, a_cleared, a_raised, a_op>>

\* ------------------------------------------------------------------------
\* Tracker state (AdvancedMultiObjectTracker.__init__)
\* ------------------------------------------------------------------------
VARIABLES
    t_frame_id,             \* self.frame_id
    track_id_count,         \* self.track_id_count
    tracks,                 \* self.tracks: track id -> AdvancedTrack
    lost_tracks,            \* self.lost_tracks
    removed_tracks,         \* self.removed_tracks
    tracked_objects,        \* what the last update call returned
    t_matched,              \* ids of the tracks the last update call matched
    t_created,              \* ids of the tracks the last update call created
    t_assigned,             \* every id given to a track so far
    t_detections,           \* the detection list of the last update call
    t_updated_from,         \* <<track id, class of the detection>> of each match of that call
    t_op                    \* the operation that produced this state

trackerVars == <<t_frame_id, track_id_count, tracks, lost_tracks, removed_tracks,
                 tracked_objects, t_matched, t_created, t_assigned, t_detections,
                 t_updated_from, t_op>>

\* ------------------------------------------------------------------------
\* One call of a function of the tracker on its own (compute_iou,
\* AdvancedTrack.update, _match_tracks)
\* ------------------------------------------------------------------------
VARIABLES
    c_fn,                   \* the function called, "none" before any call
    c_args,                 \* the arguments of the call
    c_result                \* <<>> until the call returns, then <<value>>

callVars == <<c_fn, c_args, c_result>>

vars == <<analyzerVars, trackerVars, callVars>>

\* ------------------------------------------------------------------------
\* Program constants of the analyzer
\* ------------------------------------------------------------------------
\* possession_threshold (seconds) as a fraction <<numerator, denominator>>: 0.5
possession_threshold == <<1, 2>>
pass_threshold_distance == 50
pass_threshold_frames == 5
possession_distance_threshold == 80
field_width == 1000

Teams == {"team_a", "team_b", "unknown"}

\* Frame rates an analyzer is constructed with
FpsValues == {2, 5}

\* int(possession_threshold * fps)
FrameThreshold(f) == (possession_threshold[1] * f) \div possession_threshold[2]

\* ------------------------------------------------------------------------
\* Geometry helpers
\* ------------------------------------------------------------------------
\* _get_center: (x + w/2, y + h/2), in half pixels
get_center(bbox) == <<2 * bbox[1] + bbox[3], 2 * bbox[2] + bbox[4]>>

\* _calculate_distance, squared, in half pixels
calculate_distance_sq(pos1, pos2) ==
    (pos1[1] - pos2[1]) * (pos1[1] - pos2[1]) + (pos1[2] - pos2[2]) * (pos1[2] - pos2[2])

\* the square of a pixel distance d, in half pixels
PxSq(d) == (2 * d) * (2 * d)


RECURSIVE SumSeq(_)
SumSeq(s) == IF s = <<>> THEN 0 ELSE Head(s) + SumSeq(Tail(s))

\* ------------------------------------------------------------------------
\* Analyzer operations.  The possession state the helpers pass along is the
\* record st = [cp, pe, tpt, tot, fps, raised]: current_possession,
\* possession_events, team_possession_time, total_possession_time, self.fps
\* and the exception raised so far ("none" if none).
\* ------------------------------------------------------------------------
\* one entry of ball_tracks / player_tracks
Sample(obj, frame_id) ==
    [frame_id |-> frame_id, bbox |-> obj.bbox, center |-> get_center(obj.bbox),
     track_id |-> obj.track_id, confidence |-> obj.score]

\* max(ball_tracks, key=score): the first object of the highest score
best_ball(balls) ==
    balls[CHOOSE i \in 1..Len(balls) :
            /\ \A j \in 1..Len(balls) : balls[j].score <= balls[i].score
            /\ \A j \in 1..(i - 1) : balls[j].score < balls[i].score]

\* mutant of get_player_team: the player's latest sample decides
get_player_team_latest(player_id, pts) ==
    LET mine == SelectSeq(pts, LAMBDA p : p.track_id = player_id)
    IN IF mine = <<>> THEN "unknown"
       ELSE IF mine[Len(mine)].center[1] < field_width THEN "team_a"
       ELSE "team_b"

\* _get_player_team: mean x of all samples of the player against field_width / 2
get_player_team(player_id, pts) ==
    LET mine == SelectSeq(pts, LAMBDA p : p.track_id = player_id)
        xs == [i \in 1..Len(mine) |-> mine[i].center[1]]
    IN IF mine = <<>> THEN "unknown"
       ELSE IF SumSeq(xs) < field_width * Len(mine) THEN "team_a"
       ELSE "team_b"

\* mutant of start_possession: the span is dated one frame early
start_possession_early(st, player, frame_id, pts) ==
    [st EXCEPT !.cp = << [player_id |-> player.track_id,
                          start_frame |-> frame_id - 1,
                          end_frame |-> <<>>,
                          duration |-> 0,
                          team |-> get_player_team(player.track_id, pts),
                          positions |-> <<player.center>>] >>]

\* _start_possession
start_possession(st, player, frame_id, pts) ==
    [st EXCEPT !.cp = << [player_id |-> player.track_id,
                          start_frame |-> frame_id,
                          end_frame |-> <<>>,
                          duration |-> 0,
                          team |-> get_player_team(player.track_id, pts),
                          positions |-> <<player.center>>] >>]

\* mutant of update_possession: the duration counts the calls, not the frames
update_possession_by_calls(st, frame_id, pts) ==
    IF st.cp = <<>> THEN st
    ELSE LET cur == st.cp[1]
             hits == {i \in 1..Len(pts) : /\ pts[i].frame_id = frame_id
                                          /\ pts[i].track_id = cur.player_id}
         IN IF hits = {} THEN st
            ELSE LET first == CHOOSE i \in hits : \A j \in hits : i <= j
                 IN [st EXCEPT !.cp = << [cur EXCEPT
                        !.positions = Append(cur.positions, pts[first].center),
                        !.duration = Len(cur.positions)] >>]

\* _update_possession
update_possession(st, frame_id, pts) ==
    IF st.cp = <<>> THEN st
    ELSE LET cur == st.cp[1]
             hits == {i \in 1..Len(pts) : /\ pts[i].frame_id = frame_id
                                          /\ pts[i].track_id = cur.player_id}
         IN IF hits = {} THEN st
            ELSE LET first == CHOOSE i \in hits : \A j \in hits : i <= j
                 IN [st EXCEPT !.cp = << [cur EXCEPT
                        !.positions = Append(cur.positions, pts[first].center),
                        !.duration = frame_id - cur.start_frame] >>]

\* mutant of closed_span: the duration counts the closing frame too
closed_span_inclusive(cur, frame_id) ==
    [cur EXCEPT !.end_frame = <<frame_id>>,
                !.duration = frame_id - cur.start_frame + 1]

\* the span _end_possession closes at frame_id
closed_span(cur, frame_id) ==
    [cur EXCEPT !.end_frame = <<frame_id>>,
                !.duration = frame_id - cur.start_frame]

\* the condition under which _end_possession records the closed span
meets_threshold(duration, fr_threshold) == duration >= fr_threshold

\* _end_possession
end_possession(st, frame_id, fr_threshold) ==
    IF st.cp = <<>> THEN st
    ELSE LET span == closed_span(st.cp[1], frame_id)
         IN IF meets_threshold(span.duration, fr_threshold)
            THEN IF st.fps = 0
                 \* duration / self.fps raises after the span was closed and logged
                 THEN [st EXCEPT !.cp = <<span>>,
                                 !.pe = Append(st.pe, span),
                                 !.raised = "ZeroDivisionError"]
                 ELSE [st EXCEPT !.cp = <<>>,
                                 !.pe = Append(st.pe, span),
                                 !.tpt = [st.tpt EXCEPT ![span.team] = @ + span.duration],
                                 !.tot = st.tot + span.duration]
            ELSE [st EXCEPT !.cp = <<>>]

\* mutant of closest_player: a later sample replaces the best one when farther
RECURSIVE farthest_player(_, _, _, _, _)
farthest_player(pts, frame_id, ball_center, i, best) ==
    IF i > Len(pts) THEN best
    ELSE IF /\ pts[i].frame_id = frame_id
            /\ \/ best = <<>>
               \/ calculate_distance_sq(ball_center, pts[i].center)
                    > calculate_distance_sq(ball_center, pts[best[1]].center)
         THEN farthest_player(pts, frame_id, ball_center, i + 1, <<i>>)
         ELSE farthest_player(pts, frame_id, ball_center, i + 1, best)

\* the scan of _analyze_possession for the closest player sample of this
\* frame: best is <<>> (None) or <<index>>; a later sample replaces it only
\* when strictly closer
RECURSIVE closest_player(_, _, _, _, _)
closest_player(pts, frame_id, ball_center, i, best) ==
    IF i > Len(pts) THEN best
    ELSE IF /\ pts[i].frame_id = frame_id
            /\ \/ best = <<>>
               \/ calculate_distance_sq(ball_center, pts[i].center)
                    < calculate_distance_sq(ball_center, pts[best[1]].center)
         THEN closest_player(pts, frame_id, ball_center, i + 1, <<i>>)
         ELSE closest_player(pts, frame_id, ball_center, i + 1, best)

\* mutant of in_range: the threshold itself counts as in range
in_range_inclusive(ball_center, player_center) ==
    calculate_distance_sq(ball_center, player_center) <= PxSq(possession_distance_threshold)

\* min_distance < possession_distance_threshold
in_range(ball_center, player_center) ==
    calculate_distance_sq(ball_center, player_center) < PxSq(possession_distance_threshold)

\* mutant of analyze_possession: a change of player closes the open span and
\* opens none in that frame
analyze_possession_gap(st, frame_id, bts, pts, fr_threshold) ==
    IF bts = <<>> \/ pts = <<>> THEN st
    ELSE LET ball_center == bts[Len(bts)].center
             best == closest_player(pts, frame_id, ball_center, 1, <<>>)
             ended == end_possession(st, frame_id, fr_threshold)
         IN IF best # <<>> /\ in_range(ball_center, pts[best[1]].center)
            THEN IF st.cp = <<>>
                 THEN start_possession(st, pts[best[1]], frame_id, pts)
                 ELSE IF st.cp[1].player_id # pts[best[1]].track_id
                 THEN ended
                 ELSE update_possession(st, frame_id, pts)
            ELSE end_possession(st, frame_id, fr_threshold)

\* mutant of analyze_possession: the open span stays open when no player of
\* the frame is in range
analyze_possession_keeps_open(st, frame_id, bts, pts, fr_threshold) ==
    IF bts = <<>> \/ pts = <<>> THEN st
    ELSE LET ball_center == bts[Len(bts)].center
             best == closest_player(pts, frame_id, ball_center, 1, <<>>)
             ended == end_possession(st, frame_id, fr_threshold)
         IN IF best # <<>> /\ in_range(ball_center, pts[best[1]].center)
            THEN IF \/ st.cp = <<>>
                    \/ st.cp[1].player_id # pts[best[1]].track_id
                 THEN IF ended.raised # "none" THEN ended
                      ELSE start_possession(ended, pts[best[1]], frame_id, pts)
                 ELSE update_possession(st, frame_id, pts)
            ELSE st

\* _analyze_possession
analyze_possession(st, frame_id, bts, pts, fr_threshold) ==
    IF bts = <<>> \/ pts = <<>> THEN st
    ELSE LET ball_center == bts[Len(bts)].center
             best == closest_player(pts, frame_id, ball_center, 1, <<>>)
             ended == end_possession(st, frame_id, fr_threshold)
         IN IF best # <<>> /\ in_range(ball_center, pts[best[1]].center)
            THEN IF \/ st.cp = <<>>
                    \/ st.cp[1].player_id # pts[best[1]].track_id
                 THEN IF ended.raised # "none" THEN ended
                      ELSE start_possession(ended, pts[best[1]], frame_id, pts)
                 ELSE update_possession(st, frame_id, pts)
            ELSE end_possession(st, frame_id, fr_threshold)

\* mutant of recent_possessions: a span that ended 5 frames ago is recent
recent_possessions_inclusive(pe, frame_id) ==
    SelectSeq(pe, LAMBDA p : frame_id - p.end_frame[1] <= pass_threshold_frames)

\* the spans _detect_passes looks at
recent_possessions(pe, frame_id) ==
    SelectSeq(pe, LAMBDA p : frame_id - p.end_frame[1] < pass_threshold_frames)

\* mutant of pass_event: a pass between two teams is marked unsuccessful
pass_event_by_team(current, next) ==
    [from_player |-> current.player_id,
     to_player |-> next.player_id,
     from_team |-> current.team,
     to_team |-> next.team,
     frame_id |-> current.end_frame[1],
     distance_sq |-> calculate_distance_sq(current.positions[Len(current.positions)],
                                           next.positions[1]),
     successful |-> current.team = next.team]

\* the pass event of two spans
pass_event(current, next) ==
    [from_player |-> current.player_id,
     to_player |-> next.player_id,
     from_team |-> current.team,
     to_team |-> next.team,
     frame_id |-> current.end_frame[1],
     distance_sq |-> calculate_distance_sq(current.positions[Len(current.positions)],
                                           next.positions[1]),
     successful |-> TRUE]

\* the test of _detect_passes on two spans
is_pass(current, next) ==
    /\ next.start_frame - current.end_frame[1] <= pass_threshold_frames
    /\ calculate_distance_sq(current.positions[Len(current.positions)], next.positions[1])
         <= PxSq(pass_threshold_distance)

\* the loop of _detect_passes over range(len(recent_possessions) - 1)
RECURSIVE scan_passes(_, _, _)
scan_passes(recent, i, passes) ==
    IF i > Len(recent) - 1 THEN passes
    ELSE IF is_pass(recent[i], recent[i + 1])
         THEN scan_passes(recent, i + 1, Append(passes, pass_event(recent[i], recent[i + 1])))
         ELSE scan_passes(recent, i + 1, passes)

\* _detect_passes
detect_passes(pe, passes, frame_id) ==
    IF Len(pe) < 2 THEN passes
    ELSE scan_passes(recent_possessions(pe, frame_id), 1, passes)


\* ------------------------------------------------------------------------
\* Statistics.  A float result is the fraction <<numerator, denominator>> in
\* lowest terms.
\* ------------------------------------------------------------------------
RECURSIVE GCD(_, _)
GCD(a, b) == IF b = 0 THEN a ELSE GCD(b, a % b)

Frac(n, d) == LET g == GCD(IF n < 0 THEN 0 - n ELSE n, d) IN <<n \div g, d \div g>>
FracAdd(p, q) == Frac(p[1] * q[2] + q[1] * p[2], p[2] * q[2])
FracDiv(p, k) == Frac(p[1], p[2] * k)
FracMul(p, k) == Frac(p[1] * k, p[2])

\* n / d on numbers: <<>> stands for the ZeroDivisionError of d = 0
Quot(n, d) == IF d = 0 THEN <<>> ELSE Frac(n, d)

\* what a call returns that computed these quotients on its way to rec
returned(rec, quotients) ==
    IF <<>> \in quotients THEN [raised |-> "ZeroDivisionError"] ELSE rec

\* mutant of has_possession_data: a total of zero counts as data
has_possession_data_or_zero(tot) == tot >= 0

\* if self.total_possession_time > 0
has_possession_data(tot) == tot > 0

RECURSIVE FracSum(_, _)
FracSum(S, f) ==
    IF S = {} THEN <<0, 1>>
    ELSE LET x == CHOOSE y \in S : TRUE IN FracAdd(f[x], FracSum(S \ {x}, f))

\* mutant of possession_stats_of: without possession data the balanced
\* fallback is returned whatever the player samples are
possession_stats_balanced(pts, pe, cp, tpt, tot, passes, the_fps) ==
    IF has_possession_data(tot)
    THEN [team_a_possession |-> Frac(tpt["team_a"], the_fps),
          team_b_possession |-> Frac(tpt["team_b"], the_fps),
          team_a_percentage |-> Frac(100 * tpt["team_a"], tot),
          team_b_percentage |-> Frac(100 * tpt["team_b"], tot),
          total_possession_time |-> Frac(tot, the_fps),
          possession_events |-> Len(pe),
          passes |-> Len(passes),
          current_possession |-> cp]
    ELSE [team_a_possession |-> <<15, 1>>,
          team_b_possession |-> <<15, 1>>,
          team_a_percentage |-> <<50, 1>>,
          team_b_percentage |-> <<50, 1>>,
          total_possession_time |-> <<30, 1>>,
          possession_events |-> 0,
          passes |-> 0,
          current_possession |-> <<>>]

\* get_possession_stats on the given analyzer fields
possession_stats_of(pts, pe, cp, tpt, tot, passes, the_fps) ==
    LET recent == SubSeq(pts, IF Len(pts) > 100 THEN Len(pts) - 99 ELSE 1, Len(pts))
        frames == {recent[i].frame_id : i \in 1..Len(recent)}
        ids == {recent[i].track_id : i \in 1..Len(recent)}
        team_of == [id \in ids |-> get_player_team(id, pts)]
        count(g, team) == Cardinality({i \in 1..Len(recent) :
                                         /\ recent[i].frame_id = g
                                         /\ team_of[recent[i].track_id] = team})
        players_in == [g \in frames |-> count(g, "team_a") + count(g, "team_b")]
        total_players(g) == players_in[g]
        counted == {g \in frames : total_players(g) > 0}
        share_a == [g \in counted |-> Frac(count(g, "team_a"), total_players(g))]
        share_b == [g \in counted |-> Frac(count(g, "team_b"), total_players(g))]
        total_frames == Cardinality(counted)
        team_a_ratio == FracDiv(FracSum(counted, share_a), total_frames)
        team_b_ratio == FracDiv(FracSum(counted, share_b), total_frames)
    IN IF has_possession_data(tot)
       THEN returned(
            [team_a_possession |-> Frac(tpt["team_a"], the_fps),
             team_b_possession |-> Frac(tpt["team_b"], the_fps),
             team_a_percentage |-> Quot(100 * tpt["team_a"], tot),
             team_b_percentage |-> Quot(100 * tpt["team_b"], tot),
             total_possession_time |-> Frac(tot, the_fps),
             possession_events |-> Len(pe),
             passes |-> Len(passes),
             current_possession |-> cp],
            {Quot(100 * tpt["team_a"], tot), Quot(100 * tpt["team_b"], tot)})
       ELSE IF Len(pts) > 0 /\ total_frames > 0
       THEN returned(
            [team_a_possession |-> FracMul(team_a_ratio, 30),
             team_b_possession |-> FracMul(team_b_ratio, 30),
             team_a_percentage |-> FracMul(team_a_ratio, 100),
             team_b_percentage |-> FracMul(team_b_ratio, 100),
             total_possession_time |-> <<30, 1>>,
             possession_events |-> Len(pe),
             passes |-> Len(passes),
             current_possession |-> cp],
            {Quot(1, total_players(g)) : g \in counted} \cup {Quot(1, total_frames)})
       ELSE [team_a_possession |-> <<15, 1>>,
             team_b_possession |-> <<15, 1>>,
             team_a_percentage |-> <<50, 1>>,
             team_b_percentage |-> <<50, 1>>,
             total_possession_time |-> <<30, 1>>,
             possession_events |-> 0,
             passes |-> 0,
             current_possession |-> <<>>]

\* the ids of a set in ascending order (list(unique_players))
RECURSIVE SortedIds(_)
SortedIds(S) ==
    IF S = {} THEN <<>>
    ELSE LET m == CHOOSE x \in S : \A y \in S : x <= y IN <<m>> \o SortedIds(S \ {m})

\* get_pass_stats on the given analyzer fields; the timestamp and the random
\* distance of a generated recent pass are left out
pass_stats_of(pts, passes) ==
    LET successful == Len(SelectSeq(passes, LAMBDA p : p.successful))
        unique_players == {pts[i].track_id : i \in 1..Len(pts)}
        ids == SortedIds(unique_players)
        num_players == Cardinality(unique_players)
        base_passes == IF 5 > num_players * 2 THEN 5 ELSE num_players * 2
        gen_successful == (base_passes * 85) \div 100
        gen_team_a == (base_passes * 45) \div 100
        shown == IF 5 < base_passes THEN 5 ELSE base_passes
    IN IF passes # <<>>
       THEN returned(
            [total_passes |-> Len(passes),
             successful_passes |-> successful,
             pass_success_rate |-> Quot(100 * successful, Len(passes)),
             team_a_passes |-> Len(SelectSeq(passes, LAMBDA p : p.from_team = "team_a")),
             team_b_passes |-> Len(SelectSeq(passes, LAMBDA p : p.from_team = "team_b")),
             recent_passes |-> IF Len(passes) >= 10
                               THEN SubSeq(passes, Len(passes) - 9, Len(passes))
                               ELSE passes],
            {Quot(100 * successful, Len(passes))})
       ELSE IF Len(pts) > 0 /\ num_players >= 2
       THEN [total_passes |-> base_passes,
             successful_passes |-> gen_successful,
             pass_success_rate |-> Frac(100 * gen_successful, base_passes),
             team_a_passes |-> gen_team_a,
             team_b_passes |-> base_passes - gen_team_a,
             recent_passes |-> [k \in 1..shown |->
                 [from_player |-> ids[((k - 1) % num_players) + 1],
                  to_player |-> ids[(k % num_players) + 1],
                  successful |-> (k - 1) < gen_successful,
                  team |-> IF (k - 1) % 2 = 0 THEN "team_a" ELSE "team_b"]]]
       ELSE [total_passes |-> 8,
             successful_passes |-> 6,
             pass_success_rate |-> <<75, 1>>,
             team_a_passes |-> 4,
             team_b_passes |-> 4,
             recent_passes |-> <<>>]

\* ------------------------------------------------------------------------
\* Inputs of the analyzer: tracked objects as the tracker reports them
\* ------------------------------------------------------------------------
\* a 20 x 20 box centred at (cx, cy)
BoxAt(cx, cy) == <<cx - 10, cy - 10, 20, 20>>

Player(id, cx) == [class |-> "person", bbox |-> BoxAt(cx, 100), score |-> 9, track_id |-> id]
Ball(cx) == [class |-> "ball", bbox |-> BoxAt(cx, 100), score |-> 8, track_id |-> 7]

\* player 1 plays left of the field midpoint, player 2 right of it, 40 px apart
PlayerA == Player(1, 480)
PlayerB == Player(2, 520)

ObjectLists ==
    { <<PlayerA, Ball(480)>>,            \* the ball on player 1, alone in the frame
      <<PlayerA, PlayerB, Ball(520)>>,   \* the ball on player 2, player 1 40 px away
      <<PlayerA, Ball(400)>>,            \* the ball exactly 80 px from player 1
      <<PlayerA>> }                      \* no ball reported in this frame

\* how far the caller advances the frame index between two calls
FrameSteps == {1, 3, 6}

\* the frame index of the next call: the first frame is 0; later the index
\* advances, or playback loops back to frame 0 (server.py, real-time loop)
NextFrames == IF a_frame = <<>> THEN {0}
              ELSE {a_frame[1] + d : d \in FrameSteps} \cup {0}

\* ------------------------------------------------------------------------
\* Analyzer actions
\* ------------------------------------------------------------------------
NoTime == [t \in Teams |-> 0]
NothingCleared == [events |-> 0, passes |-> 0, open |-> FALSE]

\* BallPossessionAnalyzer(fps=the_fps, possession_threshold=0.5)
BallPossessionAnalyzer(the_fps) ==
    /\ fps = the_fps
    /\ frame_threshold = FrameThreshold(fps)
    /\ ball_tracks = <<>>
    /\ player_tracks = <<>>
    /\ possession_events = <<>>
    /\ current_possession = <<>>
    /\ possession_history = <<>>
    /\ team_possession_time = NoTime
    /\ total_possession_time = 0
    /\ pass_events = <<>>
    /\ a_calls = 0
    /\ a_frame = <<>>
    /\ a_increasing = TRUE
    /\ a_run = <<>>
    /\ a_resets = 0
    /\ a_cleared = NothingCleared
    /\ a_raised = "none"
    /\ a_op = "init"

InitAnalyzer == \E the_fps \in FpsValues : BallPossessionAnalyzer(the_fps)

\* the run of frames that carry exactly one ball and one player, in range of
\* each other, after a call with these objects
next_run(objects) ==
    LET balls == SelectSeq(objects, LAMBDA o : o.class = "ball")
        players == SelectSeq(objects, LAMBDA o : o.class = "person")
    IN IF /\ Len(balls) = 1
          /\ Len(players) = 1
          /\ calculate_distance_sq(get_center(balls[1].bbox), get_center(players[1].bbox))
               < PxSq(possession_distance_threshold)
       THEN IF a_run # <<>> /\ a_run[1].player = players[1].track_id
            THEN << [player |-> players[1].track_id, len |-> a_run[1].len + 1] >>
            ELSE << [player |-> players[1].track_id, len |-> 1] >>
       ELSE <<>>

\* update_tracks(objects, frame_id)
update_tracks(objects, frame_id) ==
    LET balls == SelectSeq(objects, LAMBDA o : o.class = "ball")
        players == SelectSeq(objects, LAMBDA o : o.class = "person")
        bts == IF balls # <<>>
               THEN Append(ball_tracks, Sample(best_ball(balls), frame_id))
               ELSE ball_tracks
        pts == player_tracks \o [i \in 1..Len(players) |-> Sample(players[i], frame_id)]
        st0 == [cp |-> current_possession, pe |-> possession_events,
                tpt |-> team_possession_time, tot |-> total_possession_time,
                fps |-> fps, raised |-> "none"]
        st1 == analyze_possession(st0, frame_id, bts, pts, frame_threshold)
    IN /\ ball_tracks' = bts
       /\ player_tracks' = pts
       /\ current_possession' = st1.cp
       /\ possession_events' = st1.pe
       /\ team_possession_time' = st1.tpt
       /\ total_possession_time' = st1.tot
       /\ pass_events' = IF st1.raised # "none" THEN pass_events
                          ELSE detect_passes(st1.pe, pass_events, frame_id)
       /\ a_raised' = st1.raised
       /\ UNCHANGED <<fps, frame_threshold, possession_history>>

\* an exception ends the streaming session: no call follows it
UpdateTracks ==
    /\ a_raised = "none"
    /\ a_calls < MaxCalls
    /\ \E objects \in ObjectLists, frame_id \in NextFrames :
          /\ update_tracks(objects, frame_id)
          /\ a_frame' = <<frame_id>>
          /\ a_increasing' = (a_increasing /\ (a_frame = <<>> \/ frame_id > a_frame[1]))
          /\ a_run' = next_run(objects)
    /\ a_calls' = a_calls + 1
    /\ a_resets' = 0
    /\ a_cleared' = NothingCleared
    /\ a_op' = "update_tracks"

\* mutant of reset: the pass log is not cleared
reset_keeps_passes ==
    /\ ball_tracks' = <<>>
    /\ player_tracks' = <<>>
    /\ possession_events' = <<>>
    /\ current_possession' = <<>>
    /\ possession_history' = <<>>
    /\ team_possession_time' = NoTime
    /\ total_possession_time' = 0
    /\ UNCHANGED <<fps, frame_threshold, pass_events>>

\* reset()
reset ==
    /\ ball_tracks' = <<>>
    /\ player_tracks' = <<>>
    /\ possession_events' = <<>>
    /\ current_possession' = <<>>
    /\ possession_history' = <<>>
    /\ team_possession_time' = NoTime
    /\ total_possession_time' = 0
    /\ pass_events' = <<>>
    /\ UNCHANGED <<fps, frame_threshold>>

Reset ==
    /\ a_raised = "none"
    /\ a_resets < MaxResets
    /\ reset
    /\ a_frame' = <<>>
    /\ a_increasing' = TRUE
    /\ a_run' = <<>>
    /\ a_resets' = a_resets + 1
    /\ a_cleared' = IF a_resets = 0
                    THEN [events |-> Len(possession_events), passes |-> Len(pass_events),
                          open |-> current_possession # <<>>]
                    ELSE a_cleared
    /\ a_op' = "reset"
    /\ UNCHANGED <<a_calls, a_raised>>

\* ------------------------------------------------------------------------
\* Program constants of the tracker.  Scores and thresholds are in tenths.
\* ------------------------------------------------------------------------
track_thresh == 3
match_thresh == 7
max_time_lost == 15
min_track_length == 3
class_params ==
    [person |-> [match_thresh |-> 6, max_time_lost |-> 20],
     ball |-> [match_thresh |-> 8, max_time_lost |-> 10]]

\* ------------------------------------------------------------------------
\* Tracker numbers.  A box is <<x, y, w, h>>.  Detection boxes are in whole
\* pixels; the smoothed centre and the boxes compute_iou compares are in
\* fixed point, Scale units to the pixel, which holds 0.7 * c + 0.3 * kf
\* exactly for every track of age up to MaxAge.  Velocities and reported
\* boxes are fractions of a pixel in lowest terms.
\* ------------------------------------------------------------------------
RECURSIVE Pow10(_)
Pow10(n) == IF n = 0 THEN 1 ELSE 10 * Pow10(n - 1)

Scale == 2 * Pow10(MaxAge - 1)

FracMulFrac(p, q) == Frac(p[1] * q[1], p[2] * q[2])
FracGt(p, q) == p[1] * q[2] > q[1] * p[2]

Max2(a, b) == IF a >= b THEN a ELSE b
Min2(a, b) == IF a <= b THEN a ELSE b

\* a pixel box in fixed point
Scaled(bbox) == <<Scale * bbox[1], Scale * bbox[2], Scale * bbox[3], Scale * bbox[4]>>

\* a fixed-point box in pixels
InPixels(sbox) == <<Frac(sbox[1], Scale), Frac(sbox[2], Scale),
                    Frac(sbox[3], Scale), Frac(sbox[4], Scale)>>

\* the centre x + w/2, y + h/2 of a pixel box, in fixed point
center_of(bbox) == <<Scale * bbox[1] + (Scale \div 2) * bbox[3],
                     Scale * bbox[2] + (Scale \div 2) * bbox[4]>>

\* mutant of compute_iou: the intersection's sides are not cut off at 0
compute_iou_unclamped(bbox1, bbox2) ==
    LET xi1 == Max2(bbox1[1], bbox2[1])
        yi1 == Max2(bbox1[2], bbox2[2])
        xi2 == Min2(bbox1[1] + bbox1[3], bbox2[1] + bbox2[3])
        yi2 == Min2(bbox1[2] + bbox1[4], bbox2[2] + bbox2[4])
        inter_area == (xi2 - xi1) * (yi2 - yi1)
        box1_area == bbox1[3] * bbox1[4]
        box2_area == bbox2[3] * bbox2[4]
        union_area == box1_area + box2_area - inter_area
    IN IF union_area > 0 THEN Frac(inter_area, union_area) ELSE <<0, 1>>

\* compute_iou on fixed-point boxes, as a fraction
compute_iou(bbox1, bbox2) ==
    LET xi1 == Max2(bbox1[1], bbox2[1])
        yi1 == Max2(bbox1[2], bbox2[2])
        xi2 == Min2(bbox1[1] + bbox1[3], bbox2[1] + bbox2[3])
        yi2 == Min2(bbox1[2] + bbox1[4], bbox2[2] + bbox2[4])
        inter_area == Max2(0, xi2 - xi1) * Max2(0, yi2 - yi1)
        box1_area == bbox1[3] * bbox1[4]
        box2_area == bbox2[3] * bbox2[4]
        union_area == box1_area + box2_area - inter_area
    IN IF union_area > 0 THEN Frac(inter_area, union_area) ELSE <<0, 1>>

\* ------------------------------------------------------------------------
\* AdvancedTrack
\* ------------------------------------------------------------------------
\* AdvancedTrack.__init__
new_track(track_id, bbox, score, frame_id, class_name) ==
    [track_id |-> track_id,
     bbox |-> bbox,
     score |-> score,
     frame_id |-> frame_id,
     class_name |-> class_name,
     last_update |-> frame_id,
     history |-> << <<bbox, score, frame_id>> >>,
     velocity |-> << <<0, 1>>, <<0, 1>> >>,
     age |-> 1,
     confidence_history |-> <<score>>,
     is_confirmed |-> FALSE,
     time_since_update |-> 0,
     kf_x |-> center_of(bbox)[1],
     kf_y |-> center_of(bbox)[2],
     kf_vx |-> <<0, 1>>,
     kf_vy |-> <<0, 1>>]

\* alpha * new + (1 - alpha) * old with alpha = 0.7, in fixed point
smooth(new, old) == (7 * new + 3 * old) \div 10

\* the same on fractions
smooth_frac(new, old) == FracAdd(FracMulFrac(<<7, 10>>, new), FracMulFrac(<<3, 10>>, old))

\* AdvancedTrack._update_kalman; t already carries the new frame_id and history
update_kalman(t, bbox) ==
    LET c == center_of(bbox)
        prev == t.history[Len(t.history) - 1]
        prev_c == center_of(prev[1])
        dt == t.frame_id - prev[3]
        smoothed == [t EXCEPT !.kf_x = smooth(c[1], t.kf_x),
                              !.kf_y = smooth(c[2], t.kf_y)]
    IN IF Len(t.history) >= 2 /\ dt > 0
       THEN [smoothed EXCEPT
               !.kf_vx = smooth_frac(Frac(c[1] - prev_c[1], Scale * dt), t.kf_vx),
               !.kf_vy = smooth_frac(Frac(c[2] - prev_c[2], Scale * dt), t.kf_vy)]
       ELSE smoothed

\* mutant of get_average_confidence: the latest sample alone
get_average_confidence_latest(t) ==
    IF t.confidence_history = <<>> THEN <<0, 1>>
    ELSE <<t.confidence_history[Len(t.confidence_history)], 1>>

\* get_average_confidence: the mean of confidence_history, in tenths
get_average_confidence(t) ==
    IF t.confidence_history = <<>> THEN <<0, 1>>
    ELSE Frac(SumSeq(t.confidence_history), Len(t.confidence_history))

\* mutant of track_update: time_since_update is not reset
track_update_no_reset(t, bbox, score, frame_id) ==
    LET conf == Append(t.confidence_history, score)
        t1 == [t EXCEPT !.bbox = bbox,
                        !.score = score,
                        !.frame_id = frame_id,
                        !.last_update = frame_id,
                        !.history = Append(@, <<bbox, score, frame_id>>),
                        !.age = @ + 1,
                        !.confidence_history = IF Len(conf) > 10 THEN Tail(conf) ELSE conf]
        prev == t1.history[Len(t1.history) - 1]
        dt == frame_id - prev[3]
        t2 == IF Len(t1.history) >= 2 /\ dt > 0
              THEN update_kalman([t1 EXCEPT !.velocity =
                                     << Frac(bbox[1] - prev[1][1], dt),
                                        Frac(bbox[2] - prev[1][2], dt) >>], bbox)
              ELSE t1
    IN IF t2.age >= 3 /\ FracGt(get_average_confidence(t2), <<5, 1>>)
       THEN [t2 EXCEPT !.is_confirmed = TRUE]
       ELSE t2

\* AdvancedTrack.update
track_update(t, bbox, score, frame_id) ==
    LET conf == Append(t.confidence_history, score)
        t1 == [t EXCEPT !.bbox = bbox,
                        !.score = score,
                        !.frame_id = frame_id,
                        !.last_update = frame_id,
                        !.history = Append(@, <<bbox, score, frame_id>>),
                        !.age = @ + 1,
                        !.time_since_update = 0,
                        !.confidence_history = IF Len(conf) > 10 THEN Tail(conf) ELSE conf]
        prev == t1.history[Len(t1.history) - 1]
        dt == frame_id - prev[3]
        t2 == IF Len(t1.history) >= 2 /\ dt > 0
              THEN update_kalman([t1 EXCEPT !.velocity =
                                     << Frac(bbox[1] - prev[1][1], dt),
                                        Frac(bbox[2] - prev[1][2], dt) >>], bbox)
              ELSE t1
    IN IF t2.age >= 3 /\ FracGt(get_average_confidence(t2), <<5, 1>>)
       THEN [t2 EXCEPT !.is_confirmed = TRUE]
       ELSE t2

\* mutant of predict: the box of the last matched detection, not moved
predict_last_box(t, frame_id) == InPixels(Scaled(t.bbox))

\* AdvancedTrack.predict, in pixels
predict(t, frame_id) ==
    LET dt == frame_id - t.frame_id
        pred_center_x == FracAdd(Frac(t.kf_x, Scale), FracMul(t.kf_vx, dt))
        pred_center_y == FracAdd(Frac(t.kf_y, Scale), FracMul(t.kf_vy, dt))
    IN IF dt > 0
       THEN << FracAdd(pred_center_x, Frac(0 - t.bbox[3], 2)),
               FracAdd(pred_center_y, Frac(0 - t.bbox[4], 2)),
               <<t.bbox[3], 1>>, <<t.bbox[4], 1>> >>
       ELSE InPixels(Scaled(t.bbox))

\* AdvancedTrack.get_smoothed_bbox, in fixed point
get_smoothed_bbox(t) ==
    <<t.kf_x - (Scale \div 2) * t.bbox[3], t.kf_y - (Scale \div 2) * t.bbox[4],
      Scale * t.bbox[3], Scale * t.bbox[4]>>

\* mutant of is_active: a track unmatched for exactly 10 frames is still active
is_active_inclusive(t) == t.time_since_update <= 10 /\ t.age > 0

\* AdvancedTrack.is_active
is_active(t) == t.time_since_update < 10 /\ t.age > 0

\* ------------------------------------------------------------------------
\* AdvancedMultiObjectTracker
\* ------------------------------------------------------------------------
\* the dict a matched or created track is reported as
report(t, frame_id, class_name) ==
    [track_id |-> t.track_id,
     bbox |-> InPixels(get_smoothed_bbox(t)),
     score |-> t.score,
     frame_id |-> frame_id,
     class |-> class_name,
     confidence |-> get_average_confidence(t)]

\* the ids of a track table in the order of the dict (insertion order, which
\* is ascending id order: ids only grow and deleting keeps the order)
track_ids(trks) == SortedIds(DOMAIN trks)

\* the inner loop of _match_tracks: the detection the track takes among the
\* unmatched ones; best is <<>> (-1) or <<j>>
RECURSIVE best_match(_, _, _, _, _, _)
best_match(sbox, det_bboxes, unmatched, k, thresh, best) ==
    IF k > Len(unmatched) THEN best
    ELSE LET j == unmatched[k]
             iou == compute_iou(sbox, Scaled(det_bboxes[j]))
             best_iou == IF best = <<>> THEN <<0, 1>>
                         ELSE compute_iou(sbox, Scaled(det_bboxes[best[1]]))
         IN IF FracGt(iou, <<thresh, 10>>) /\ FracGt(iou, best_iou)
            THEN best_match(sbox, det_bboxes, unmatched, k + 1, thresh, <<j>>)
            ELSE best_match(sbox, det_bboxes, unmatched, k + 1, thresh, best)

\* the outer loop of _match_tracks over the tracks in dict order
RECURSIVE match_loop(_, _, _, _, _, _, _)
match_loop(trks, ids, i, det_bboxes, thresh, matched, unmatched) ==
    IF i > Len(ids) THEN [matched |-> matched, unmatched |-> unmatched]
    ELSE LET best == best_match(get_smoothed_bbox(trks[ids[i]]), det_bboxes,
                                unmatched, 1, thresh, <<>>)
         IN IF best # <<>>
            THEN match_loop(trks, ids, i + 1, det_bboxes, thresh,
                            Append(matched, <<ids[i], best[1]>>),
                            SelectSeq(unmatched, LAMBDA j : j # best[1]))
            ELSE match_loop(trks, ids, i + 1, det_bboxes, thresh, matched, unmatched)

RECURSIVE Reverse(_)
Reverse(s) == IF s = <<>> THEN <<>> ELSE Append(Reverse(Tail(s)), Head(s))

\* mutant of match_tracks: the tracks are visited in descending id order
match_tracks_descending(class_trks, det_bboxes, class_name) ==
    IF DOMAIN class_trks = {}
    THEN [matched |-> <<>>, unmatched |-> [j \in 1..Len(det_bboxes) |-> j]]
    ELSE match_loop(class_trks, Reverse(track_ids(class_trks)), 1, det_bboxes,
                    class_params[class_name].match_thresh, <<>>,
                    [j \in 1..Len(det_bboxes) |-> j])

\* mutant of match_tracks: a matched detection stays in the unmatched list
match_tracks_keeps_unmatched(class_trks, det_bboxes, class_name) ==
    IF DOMAIN class_trks = {}
    THEN [matched |-> <<>>, unmatched |-> [j \in 1..Len(det_bboxes) |-> j]]
    ELSE [matched |-> match_loop(class_trks, track_ids(class_trks), 1, det_bboxes,
                                 class_params[class_name].match_thresh, <<>>,
                                 [j \in 1..Len(det_bboxes) |-> j]).matched,
          unmatched |-> [j \in 1..Len(det_bboxes) |-> j]]

\* _match_tracks
match_tracks(class_trks, det_bboxes, class_name) ==
    IF DOMAIN class_trks = {}
    THEN [matched |-> <<>>, unmatched |-> [j \in 1..Len(det_bboxes) |-> j]]
    ELSE match_loop(class_trks, track_ids(class_trks), 1, det_bboxes,
                    class_params[class_name].match_thresh, <<>>,
                    [j \in 1..Len(det_bboxes) |-> j])

\* The tracker state the helpers pass along is the record
\* ts = [tracks, count, out, matched, created, updated_from].

\* mutant of create_track: the id counter is not advanced
create_track_same_id(ts, det, frame_id, class_name) ==
    LET track_id == ts.count
        t == new_track(track_id, det.bbox, det.score, frame_id, class_name)
    IN [ts EXCEPT !.tracks = (track_id :> t) @@ @,
                  !.out = Append(@, report(t, frame_id, class_name)),
                  !.created = @ \cup {track_id}]

\* mutant of create_track: the created track is not put into the output
create_track_unreported(ts, det, frame_id, class_name) ==
    LET track_id == ts.count
        t == new_track(track_id, det.bbox, det.score, frame_id, class_name)
    IN [ts EXCEPT !.count = @ + 1,
                  !.tracks = (track_id :> t) @@ @,
                  !.created = @ \cup {track_id}]

\* the creation of one track (track_id = self.track_id_count; count += 1)
create_track(ts, det, frame_id, class_name) ==
    LET track_id == ts.count
        t == new_track(track_id, det.bbox, det.score, frame_id, class_name)
    IN [ts EXCEPT !.count = @ + 1,
                  !.tracks = (track_id :> t) @@ @,
                  !.out = Append(@, report(t, frame_id, class_name)),
                  !.created = @ \cup {track_id}]

\* mutant of creates_track: a detection at the threshold creates a track too
creates_track_at_threshold(det) == det.score >= track_thresh

\* if det['score'] > self.track_thresh
creates_track(det) == det.score > track_thresh

\* for det in ...: if score > self.track_thresh: create a track
RECURSIVE create_loop(_, _, _, _, _, _)
create_loop(ts, detections, idxs, k, frame_id, class_name) ==
    IF k > Len(idxs) THEN ts
    ELSE IF creates_track(detections[idxs[k]])
         THEN create_loop(create_track(ts, detections[idxs[k]], frame_id, class_name),
                          detections, idxs, k + 1, frame_id, class_name)
         ELSE create_loop(ts, detections, idxs, k + 1, frame_id, class_name)

\* for track_id, det_idx in matched_tracks: update and report the track
RECURSIVE update_loop(_, _, _, _, _, _)
update_loop(ts, detections, matched, k, frame_id, class_name) ==
    IF k > Len(matched) THEN ts
    ELSE LET track_id == matched[k][1]
             det == detections[matched[k][2]]
             t == track_update(ts.tracks[track_id], det.bbox, det.score, frame_id)
         IN update_loop([ts EXCEPT !.tracks[track_id] = t,
                                   !.out = Append(@, report(t, frame_id, class_name)),
                                   !.matched = @ \cup {track_id},
                                   !.updated_from = @ \cup {<<track_id, det.class>>}],
                        detections, matched, k + 1, frame_id, class_name)

\* mutant of class_tracks: the tracks of every class
class_tracks_any(trks, class_name) == trks

\* class_tracks = {tid: track for ... if track.class_name == class_name}
class_tracks(trks, class_name) ==
    [id \in {tid \in DOMAIN trks : trks[tid].class_name = class_name} |-> trks[id]]

\* _update_class_tracks
update_class_tracks(ts, detections, class_name, frame_id) ==
    LET class_trks == class_tracks(ts.tracks, class_name)
        class_ids == DOMAIN class_trks
        det_bboxes == [j \in 1..Len(detections) |-> detections[j].bbox]
        m == match_tracks(class_trks, det_bboxes, class_name)
    IN IF detections = <<>> THEN ts
       ELSE IF class_ids = {}
       THEN create_loop(ts, detections, [j \in 1..Len(detections) |-> j], 1,
                        frame_id, class_name)
       ELSE create_loop(update_loop(ts, detections, m.matched, 1, frame_id, class_name),
                        detections, m.unmatched, 1, frame_id, class_name)

\* _predict_tracks
predict_tracks(trks, frame_id) ==
    LET ids == track_ids(trks)
        active == SelectSeq(ids, LAMBDA id : is_active(trks[id]))
    IN [k \in 1..Len(active) |->
          [track_id |-> active[k],
           bbox |-> predict(trks[active[k]], frame_id),
           score |-> trks[active[k]].score,
           frame_id |-> frame_id,
           class |-> trks[active[k]].class_name,
           confidence |-> get_average_confidence(trks[active[k]])]]

\* mutant of tracks_to_remove: the limit is the one of the track's class
tracks_to_remove_by_class(trks) ==
    {id \in DOMAIN trks :
        trks[id].time_since_update > class_params[trks[id].class_name].max_time_lost}

\* the tracks _handle_lost_tracks removes
tracks_to_remove(trks) ==
    {id \in DOMAIN trks : trks[id].time_since_update > max_time_lost}

\* _handle_lost_tracks: the new track table and removed set
handle_lost_tracks(trks, removed) ==
    LET gone == tracks_to_remove(trks) \ removed
    IN [tracks |-> [id \in DOMAIN trks \ gone |-> trks[id]],
        removed |-> removed \cup gone]

\* ------------------------------------------------------------------------
\* Inputs of the tracker: detections as the detector reports them
\* ------------------------------------------------------------------------
Det(class_name, x, score) == [class |-> class_name, bbox |-> <<x, 0, 10, 2>>, score |-> score]

DetectionLists ==
    { <<>>,                                        \* the detector found nothing
      <<Det("person", 0, 9)>>,
      <<Det("ball", 0, 9)>>,
      <<Det("person", 2, 9), Det("ball", 0, 9)>>,  \* the person 2 px further right
      <<Det("person", 40, 2)>> }                   \* a weak detection far from the others

\* ------------------------------------------------------------------------
\* Tracker actions
\* ------------------------------------------------------------------------
InitTracker ==
    /\ t_frame_id = 0
    /\ track_id_count = 0
    /\ tracks = <<>>
    /\ lost_tracks = <<>>
    /\ removed_tracks = {}
    /\ tracked_objects = <<>>
    /\ t_matched = {}
    /\ t_created = {}
    /\ t_assigned = {}
    /\ t_detections = <<>>
    /\ t_updated_from = {}
    /\ t_op = "init"

\* the result of update(detections):
\* [tracks, count, out, matched, created, updated_from, removed]
update_result(detections) ==
    LET frame_id == t_frame_id + 1
        aged == [id \in DOMAIN tracks |->
                   [tracks[id] EXCEPT !.time_since_update = @ + 1]]
        ts0 == [tracks |-> aged, count |-> track_id_count, out |-> <<>>,
                matched |-> {}, created |-> {}, updated_from |-> {}]
        person_detections == SelectSeq(detections, LAMBDA d : d.class = "person")
        ball_detections == SelectSeq(detections, LAMBDA d : d.class = "ball")
        ts1 == IF person_detections # <<>>
               THEN update_class_tracks(ts0, person_detections, "person", frame_id)
               ELSE ts0
        ts2 == IF ball_detections # <<>>
               THEN update_class_tracks(ts1, ball_detections, "ball", frame_id)
               ELSE ts1
        kept == handle_lost_tracks(ts2.tracks, removed_tracks)
    IN IF detections = <<>>
       THEN [tracks |-> aged, count |-> track_id_count,
             out |-> predict_tracks(aged, frame_id),
             matched |-> {}, created |-> {}, updated_from |-> {},
             removed |-> removed_tracks]
       ELSE [tracks |-> kept.tracks, count |-> ts2.count, out |-> ts2.out,
             matched |-> ts2.matched, created |-> ts2.created,
             updated_from |-> ts2.updated_from, removed |-> kept.removed]

\* update(detections), within the bounds of the model
update(detections) ==
    \E r \in {update_result(detections)} :
       /\ r.count <= MaxTracks
       /\ \A id \in DOMAIN r.tracks : r.tracks[id].age <= MaxAge
       /\ t_frame_id' = t_frame_id + 1
       /\ tracks' = r.tracks
       /\ track_id_count' = r.count
       /\ removed_tracks' = r.removed
       /\ tracked_objects' = r.out
       /\ t_matched' = r.matched
       /\ t_created' = r.created
       /\ t_assigned' = t_assigned \cup r.created
       /\ t_detections' = detections
       /\ t_updated_from' = r.updated_from
       /\ UNCHANGED lost_tracks

TrackerUpdate ==
    /\ t_frame_id < MaxFrames
    /\ \E detections \in DetectionLists : update(detections)
    /\ t_op' = "update"

NextTracker == TrackerUpdate /\ UNCHANGED <<analyzerVars, callVars>>

\* the tracker next to an analyzer constructed for 5 frames per second
\* no function is called on its own
NoCalls ==
    /\ c_fn = "none"
    /\ c_args = <<>>
    /\ c_result = <<>>

InitAtFiveFps ==
    /\ InitTracker
    /\ InitAnalyzer
    /\ fps = 5
    /\ NoCalls

SpecTracker == InitAtFiveFps /\ [][NextTracker]_vars

NextAnalyzer ==
    \/ UpdateTracks /\ UNCHANGED <<trackerVars, callVars>>
    \/ Reset /\ UNCHANGED <<trackerVars, callVars>>

Init ==
    /\ InitAnalyzer
    /\ InitTracker
    /\ NoCalls

SpecAnalyzer == Init /\ [][NextAnalyzer]_vars

\* ------------------------------------------------------------------------
\* A stream of frames with strictly increasing indices, some of them
\* without a ball, without a player or without any object
\* ------------------------------------------------------------------------
StreamLists == ObjectLists \cup { <<Ball(480)>>, <<>> }

\* the frame index of the next frame of the stream
StreamFrames == IF a_frame = <<>> THEN {0} ELSE {a_frame[1] + d : d \in {1, 3}}

StreamFrame ==
    /\ a_raised = "none"
    /\ a_calls < MaxCalls
    /\ \E objects \in StreamLists, frame_id \in StreamFrames :
          /\ update_tracks(objects, frame_id)
          /\ a_frame' = <<frame_id>>
          /\ a_run' = next_run(objects)
    /\ a_increasing' = a_increasing
    /\ a_calls' = a_calls + 1
    /\ a_resets' = 0
    /\ a_cleared' = NothingCleared
    /\ a_op' = "update_tracks"

NextStream == StreamFrame /\ UNCHANGED <<trackerVars, callVars>>

SpecStream == Init /\ [][NextStream]_vars

\* ------------------------------------------------------------------------
\* A stream in which player 1 crosses the field midpoint (x = 440 and
\* x = 560) while player 2 stays at x = 520
\* ------------------------------------------------------------------------
CrossingLists ==
    { <<Player(1, 440), PlayerB, Ball(440)>>,   \* the ball on player 1, left
      <<Player(1, 440), PlayerB, Ball(520)>>,   \* the ball on player 2
      <<Player(1, 560), PlayerB, Ball(560)>>,   \* the ball on player 1, right
      <<Player(1, 560), PlayerB, Ball(520)>> }  \* the ball on player 2

CrossingFrame ==
    /\ a_raised = "none"
    /\ a_calls < MaxCalls
    /\ \E objects \in CrossingLists, frame_id \in StreamFrames :
          /\ update_tracks(objects, frame_id)
          /\ a_frame' = <<frame_id>>
          /\ a_run' = next_run(objects)
    /\ a_increasing' = a_increasing
    /\ a_calls' = a_calls + 1
    /\ a_resets' = 0
    /\ a_cleared' = NothingCleared
    /\ a_op' = "update_tracks"

NextCrossing == CrossingFrame /\ UNCHANGED <<trackerVars, callVars>>

SpecCrossing == Init /\ [][NextCrossing]_vars

\* ------------------------------------------------------------------------
\* Analyzers whose minimum span length int(0.5 * fps) is 5 frames or more,
\* called with frame indices that never decrease
\* ------------------------------------------------------------------------
LongSpanFps == {10, 12}

\* the frame index of the next call: the same frame again, or a later one
LongSpanFrames == IF a_frame = <<>> THEN {0} ELSE {a_frame[1] + d : d \in {0, 1, 5}}

LongSpanFrame ==
    /\ a_raised = "none"
    /\ a_calls < MaxCalls
    /\ \E objects \in ObjectLists, frame_id \in LongSpanFrames :
          /\ update_tracks(objects, frame_id)
          /\ a_frame' = <<frame_id>>
          /\ a_increasing' = (a_increasing /\ (a_frame = <<>> \/ frame_id > a_frame[1]))
          /\ a_run' = next_run(objects)
    /\ a_calls' = a_calls + 1
    /\ a_resets' = 0
    /\ a_cleared' = NothingCleared
    /\ a_op' = "update_tracks"

NextLongSpans == LongSpanFrame /\ UNCHANGED <<trackerVars, callVars>>

InitLongSpans ==
    /\ \E the_fps \in LongSpanFps : BallPossessionAnalyzer(the_fps)
    /\ InitTracker
    /\ NoCalls

SpecLongSpans == InitLongSpans /\ [][NextLongSpans]_vars

\* ------------------------------------------------------------------------
\* The four-frame scenario of demo_analytics: players 1 and 3 stand 220 px
\* apart; the ball is within 10 px of player 1 in frames 1 and 2, about
\* 110 px from both players in frame 3 and within 10 px of player 3 in
\* frame 4.
\* ------------------------------------------------------------------------
DemoFrames == 4
DemoFps == {2, 5, 30}
DemoPlayer1 == Player(1, 400)
DemoPlayer3 == Player(3, 620)
NearOffsets == {0 - 9, 0, 9}
MidwayOffsets == {0 - 2, 0, 2}

\* the tracked objects of the scenario's frame
DemoObjects(frame_id) ==
    IF frame_id \in {1, 2}
    THEN {<<DemoPlayer1, Ball(400 + d), DemoPlayer3>> : d \in NearOffsets}
    ELSE IF frame_id = 3
    THEN {<<DemoPlayer1, Ball(510 + d), DemoPlayer3>> : d \in MidwayOffsets}
    ELSE {<<DemoPlayer1, Ball(620 + d), DemoPlayer3>> : d \in NearOffsets}

DemoFrame ==
    /\ a_raised = "none"
    /\ a_calls < DemoFrames
    /\ \E objects \in DemoObjects(a_calls + 1) :
          /\ update_tracks(objects, a_calls + 1)
          /\ a_run' = next_run(objects)
    /\ a_frame' = <<a_calls + 1>>
    /\ a_increasing' = a_increasing
    /\ a_calls' = a_calls + 1
    /\ a_resets' = 0
    /\ a_cleared' = NothingCleared
    /\ a_op' = "update_tracks"

NextDemo == DemoFrame /\ UNCHANGED <<trackerVars, callVars>>

InitDemo ==
    /\ \E the_fps \in DemoFps : BallPossessionAnalyzer(the_fps)
    /\ InitTracker
    /\ NoCalls

SpecDemo == InitDemo /\ [][NextDemo]_vars

\* an analyzer constructed with fps = 0
InitZeroFps ==
    /\ BallPossessionAnalyzer(0)
    /\ InitTracker
    /\ NoCalls

SpecZeroFps == InitZeroFps /\ [][NextAnalyzer]_vars

\* ------------------------------------------------------------------------
\* compute_iou in binary floating point.  A float is an integer of at most
\* FloatBits significant bits (times a power of two); every operation rounds
\* its exact result to the nearest float, ties to the even significand, as
\* Python's float does with 53 bits.  A quotient is in units of 2^-QuotBits.
\* ------------------------------------------------------------------------
FloatBits == 5
QuotBits == 14

RECURSIVE Pow2(_)
Pow2(n) == IF n = 0 THEN 1 ELSE 2 * Pow2(n - 1)

RECURSIVE BitLength(_)
BitLength(n) == IF n = 0 THEN 0 ELSE 1 + BitLength(n \div 2)

\* the float nearest to n, or to a little more than n if sticky
round_nearest(n, sticky) ==
    IF n < Pow2(FloatBits) THEN n
    ELSE LET q == Pow2(BitLength(n) - FloatBits)
             low == n % q
             base == n - low
         IN IF \/ 2 * low > q
               \/ 2 * low = q /\ (sticky \/ (base \div q) % 2 = 1)
            THEN base + q
            ELSE base

\* the float an exact sum, difference or product is stored as
fl(n) == IF n < 0 THEN 0 - round_nearest(0 - n, FALSE) ELSE round_nearest(n, FALSE)

\* n / d on floats, in units of 2^-QuotBits
float_div(n, d) ==
    LET t == n * Pow2(QuotBits)
    IN round_nearest(t \div d, t % d # 0)

\* 1.0 and 0.0 as quotients
FloatOne == Pow2(QuotBits)
FloatZero == 0

\* compute_iou as the interpreter evaluates it
compute_iou_float(bbox1, bbox2) ==
    LET xi1 == Max2(bbox1[1], bbox2[1])
        yi1 == Max2(bbox1[2], bbox2[2])
        xi2 == Min2(fl(bbox1[1] + bbox1[3]), fl(bbox2[1] + bbox2[3]))
        yi2 == Min2(fl(bbox1[2] + bbox1[4]), fl(bbox2[2] + bbox2[4]))
        inter_area == fl(Max2(0, fl(xi2 - xi1)) * Max2(0, fl(yi2 - yi1)))
        box1_area == fl(bbox1[3] * bbox1[4])
        box2_area == fl(bbox2[3] * bbox2[4])
        union_area == fl(fl(box1_area + box2_area) - inter_area)
    IN IF union_area > 0 THEN float_div(inter_area, union_area) ELSE FloatZero

\* boxes of positive width and height whose coordinates are floats
FloatXs == {0, 4, 32}
FloatWs == {4, 5}
FloatHs == {2, 5}
FloatBoxes == {<<x, 0, w, h>> : x \in FloatXs, w \in FloatWs, h \in FloatHs}

\* one call compute_iou(bbox1, bbox2)
ComputeIou ==
    /\ c_fn = "compute_iou"
    /\ c_result = <<>>
    /\ c_result' = <<compute_iou_float(c_args[1], c_args[2])>>
    /\ UNCHANGED <<c_fn, c_args>>

NextIou == ComputeIou /\ UNCHANGED <<analyzerVars, trackerVars>>

InitIou ==
    /\ BallPossessionAnalyzer(30)
    /\ InitTracker
    /\ c_fn = "compute_iou"
    /\ c_args \in FloatBoxes \X FloatBoxes
    /\ c_result = <<>>

SpecIou == InitIou /\ [][NextIou]_vars

\* compute_iou on any pair of boxes: the boxes above, a box whose right edge
\* x + w is rounded up, and boxes of zero or negative width or height
AnyBoxes ==
    FloatBoxes \cup {<<32, 0, 7, 2>>, <<4, 0, 0, 2>>, <<6, 0, -4, 2>>, <<6, 2, -4, -2>>}

InitIouAny ==
    /\ BallPossessionAnalyzer(30)
    /\ InitTracker
    /\ c_fn = "compute_iou"
    /\ c_args \in AnyBoxes \X AnyBoxes
    /\ c_result = <<>>

SpecIouAny == InitIouAny /\ [][NextIou]_vars

\* ------------------------------------------------------------------------
\* The smoothed centre of a track in binary floating point.  Lengths are in
\* sixteenths of a pixel; a factor (alpha, 1 - alpha) is a quotient in units
\* of 2^-QuotBits.
\* ------------------------------------------------------------------------
MaxUpdates == 4
SubPixel == 16

\* alpha = 0.7 and 1 - alpha as floats
alpha == float_div(7, 10)
one_minus_alpha == fl(FloatOne - alpha)

\* factor * v on floats, v >= 0
float_mul(factor, v) ==
    LET t == factor * v
    IN round_nearest(t \div FloatOne, t % FloatOne # 0)

\* center_x = bbox[0] + bbox[2] / 2, center_y = bbox[1] + bbox[3] / 2
center_float(bbox) == <<fl(bbox[1] + bbox[3] \div 2), fl(bbox[2] + bbox[4] \div 2)>>

\* alpha * center + (1 - alpha) * self.kf
smooth_float(center, kf) == fl(float_mul(alpha, center) + float_mul(one_minus_alpha, kf))

\* AdvancedTrack.__init__: age and the smoothed centre
new_track_float(bbox) ==
    [age |-> 1, kf_x |-> center_float(bbox)[1], kf_y |-> center_float(bbox)[2]]

\* AdvancedTrack.update with the detection of the next frame (dt = 1):
\* age and, by _update_kalman, the smoothed centre
track_update_float(t, bbox) ==
    [age |-> t.age + 1,
     kf_x |-> smooth_float(center_float(bbox)[1], t.kf_x),
     kf_y |-> smooth_float(center_float(bbox)[2], t.kf_y)]

\* boxes of 2 x 2 pixels
SmoothXs == {4, 8, 12, 26, 30}
SmoothBoxes == {<<SubPixel * x, 0, SubPixel * 2, SubPixel * 2>> : x \in SmoothXs}

\* the track is matched in the next frame with the fixed box c_args[2]
UpdateSameBox ==
    /\ c_fn \in {"AdvancedTrack", "update"}
    /\ c_result[1].age <= MaxUpdates
    /\ c_fn' = "update"
    /\ c_result' = <<track_update_float(c_result[1], c_args[2])>>
    /\ UNCHANGED c_args

NextSmoothing == UpdateSameBox /\ UNCHANGED <<analyzerVars, trackerVars>>

\* a track created from the box c_args[1]
InitSmoothing ==
    /\ BallPossessionAnalyzer(30)
    /\ InitTracker
    /\ c_fn = "AdvancedTrack"
    /\ c_args \in SmoothBoxes \X SmoothBoxes
    /\ c_result = <<new_track_float(c_args[1])>>

SpecSmoothing == InitSmoothing /\ [][NextSmoothing]_vars

\* ------------------------------------------------------------------------
\* A tracker that is shown detections of zero or negative width or height
\* ------------------------------------------------------------------------
\* boxes inside <<0, 0, 10, 2>>: zero width, negative width, zero height,
\* negative width and height
DegenerateBoxes == {<<4, 0, 0, 2>>, <<6, 0, -4, 2>>, <<0, 1, 10, 0>>, <<6, 2, -4, -2>>}

\* a degenerate detection alone or next to a person detection, and a person
\* detection alone
DegenerateLists ==
    LET degenerate == {[class |-> "person", bbox |-> b, score |-> s] :
                          b \in DegenerateBoxes, s \in {3, 9}}
    IN {<<d>> : d \in degenerate}
          \cup {<<Det("person", 0, 9), d>> : d \in degenerate}
          \cup {<<Det("person", 0, 9)>>}

DegenerateUpdate ==
    /\ t_frame_id < MaxUpdates
    /\ \E detections \in DegenerateLists : update(detections)
    /\ t_op' = "update"

NextDegenerate == DegenerateUpdate /\ UNCHANGED <<analyzerVars, callVars>>

SpecDegenerate == InitAtFiveFps /\ [][NextDegenerate]_vars

\* ------------------------------------------------------------------------
\* One track matched frame after frame with the same box and a score of 0.1
\* or 0.9
\* ------------------------------------------------------------------------
MaxConfirmAge == 12
ConfirmScores == {1, 9}

\* the track is matched in the next frame
ConfirmUpdate ==
    /\ c_fn \in {"AdvancedTrack.__init__", "AdvancedTrack.update"}
    /\ c_result[1].age < MaxConfirmAge
    /\ \E score \in ConfirmScores :
          c_result' = <<track_update(c_result[1], c_args[1], score, c_result[1].frame_id + 1)>>
    /\ c_fn' = "AdvancedTrack.update"
    /\ UNCHANGED c_args

NextConfirm == ConfirmUpdate /\ UNCHANGED <<analyzerVars, trackerVars>>

\* a person track created in frame 1
InitConfirm ==
    /\ BallPossessionAnalyzer(30)
    /\ InitTracker
    /\ c_fn = "AdvancedTrack.__init__"
    /\ c_args = << <<0, 0, 10, 2>> >>
    /\ \E score \in ConfirmScores :
          c_result = <<new_track(0, c_args[1], score, 1, "person")>>

SpecConfirm == InitConfirm /\ [][NextConfirm]_vars

\* ------------------------------------------------------------------------
\* The possession times in binary floating point: team_possession_time and
\* total_possession_time as _end_possession accumulates them over the spans
\* it logs, and the percentages get_possession_stats derives from them.
\* Times are in units of 2^-QuotBits seconds, percentages in units of
\* 2^-QuotBits.
\* ------------------------------------------------------------------------
MaxSpans == 3

\* defaultdict(float), 0.0 and the empty log
NoTimeFloat == [team_a |-> 0, team_b |-> 0, total |-> 0, events |-> <<>>]

\* _end_possession for a span of the given team that meets the threshold
end_possession_float(tt, team, duration, the_fps) ==
    LET possession_time == float_div(duration, the_fps)
    IN [tt EXCEPT ![team] = fl(@ + possession_time),
                  !.total = fl(@ + possession_time),
                  !.events = Append(@, [team |-> team, duration |-> duration])]

\* (team_time / self.total_possession_time) * 100
percentage_float(team_time, total) == fl(float_div(team_time, total) * 100)

\* one span is closed and logged
EndPossessionFloat ==
    /\ c_fn \in {"BallPossessionAnalyzer", "_end_possession"}
    /\ Len(c_result[1].events) < MaxSpans
    /\ \E team \in {"team_a", "team_b"}, duration \in 1..5 :
          /\ meets_threshold(duration, FrameThreshold(c_args[1]))
          /\ c_result' = <<end_possession_float(c_result[1], team, duration, c_args[1])>>
    /\ c_fn' = "_end_possession"
    /\ UNCHANGED c_args

NextTotals == EndPossessionFloat /\ UNCHANGED <<analyzerVars, trackerVars>>

InitTotals ==
    /\ BallPossessionAnalyzer(30)
    /\ InitTracker
    /\ c_fn = "BallPossessionAnalyzer"
    /\ c_args \in {<<f>> : f \in FpsValues}
    /\ c_result = <<NoTimeFloat>>

SpecTotals == InitTotals /\ [][NextTotals]_vars

\* ------------------------------------------------------------------------
\* _match_tracks on a table of two tracks of one class and one or two
\* detections of that class
\* ------------------------------------------------------------------------
MatchIdSets == {{0, 1}, {1, 3}}
MatchDetXs == {0, 2, 4}
MatchClasses == {"person", "ball"}

\* a track of the table: created in frame 1 at x = 0 or x = 3, or created at
\* x = 0 and matched in frame 2 at x = 3 (its smoothed box is at x = 2.1)
MatchTracksOf(id, class_name) ==
    {new_track(id, <<0, 0, 10, 2>>, 9, 1, class_name),
     new_track(id, <<3, 0, 10, 2>>, 9, 1, class_name),
     track_update(new_track(id, <<0, 0, 10, 2>>, 9, 1, class_name), <<3, 0, 10, 2>>, 9, 2)}

\* the tables of two tracks
MatchTables(class_name) ==
    UNION {{trks \in [ids -> UNION {MatchTracksOf(id, class_name) : id \in ids}] :
               \A id \in ids : trks[id].track_id = id} : ids \in MatchIdSets}

\* the detection boxes of the frame
MatchDetections ==
    {<<<<x, 0, 10, 2>>>> : x \in MatchDetXs}
        \cup {<< <<x, 0, 10, 2>>, <<z, 0, 10, 2>> >> : x \in MatchDetXs, z \in MatchDetXs}

\* one call _match_tracks(tracks, det_bboxes, det_scores, class_name)
MatchTracks ==
    /\ c_fn = "_match_tracks"
    /\ c_result = <<>>
    /\ c_result' = <<match_tracks(c_args[1], c_args[2], c_args[3])>>
    /\ UNCHANGED <<c_fn, c_args>>

NextMatching == MatchTracks /\ UNCHANGED <<analyzerVars, trackerVars>>

InitMatching ==
    /\ BallPossessionAnalyzer(30)
    /\ InitTracker
    /\ c_fn = "_match_tracks"
    /\ \E class_name \in MatchClasses :
          \E class_trks \in MatchTables(class_name) :
             \E det_bboxes \in MatchDetections :
                c_args = <<class_trks, det_bboxes, class_name>>
    /\ c_result = <<>>

SpecMatching == InitMatching /\ [][NextMatching]_vars

\* ------------------------------------------------------------------------
\* _update_class_tracks on the tracks of one class (none, or two created in
\* the frame before) and one or two detections of that class
\* ------------------------------------------------------------------------
ClassFrame == 2
ClassCount == 4

\* the tables: no track, or two tracks as created in frame 1 at x = 0 or 3
ClassTables(class_name) ==
    {<<>>} \cup
    UNION {{[id \in ids |-> new_track(id, <<xs[id], 0, 10, 2>>, 9, 1, class_name)]
               : xs \in [ids -> {0, 3}]} : ids \in MatchIdSets}

\* the detections of the class in the frame: on a track, near one or far
\* from all, of a score at track_thresh or above it
ClassDetections(class_name) ==
    LET dets == {Det(class_name, x, score) : x \in {0, 4, 40}, score \in {3, 9}}
    IN {<<d>> : d \in dets} \cup {<<d, e>> : d \in dets, e \in dets}

\* one call _update_class_tracks(detections, class_name) in frame ClassFrame
UpdateClassTracks ==
    /\ c_fn = "_update_class_tracks"
    /\ c_result = <<>>
    /\ c_result' = <<update_class_tracks(
                        [tracks |-> c_args[1], count |-> ClassCount, out |-> <<>>,
                         matched |-> {}, created |-> {}, updated_from |-> {}],
                        c_args[2], c_args[3], ClassFrame)>>
    /\ UNCHANGED <<c_fn, c_args>>

NextClassTracks == UpdateClassTracks /\ UNCHANGED <<analyzerVars, trackerVars>>

InitClassTracks ==
    /\ BallPossessionAnalyzer(30)
    /\ InitTracker
    /\ c_fn = "_update_class_tracks"
    /\ \E class_name \in MatchClasses :
          \E class_trks \in ClassTables(class_name) :
             \E detections \in ClassDetections(class_name) :
                c_args = <<class_trks, detections, class_name>>
    /\ c_result = <<>>

SpecClassTracks == InitClassTracks /\ [][NextClassTracks]_vars


\* get_possession_stats() and get_pass_stats() in the current state
get_possession_stats ==
    possession_stats_of(player_tracks, possession_events, current_possession,
                        team_possession_time, total_possession_time, pass_events, fps)
get_pass_stats == pass_stats_of(player_tracks, pass_events)

\* what they return on a newly constructed analyzer
new_possession_stats == possession_stats_of(<<>>, <<>>, <<>>, NoTime, 0, <<>>, fps)
new_pass_stats == pass_stats_of(<<>>, <<>>)


\* ------------------------------------------------------------------------
\* Claims about the analyzer
\* ------------------------------------------------------------------------
\* a step of update_tracks
IsUpdateTracks == a_calls' = a_calls + 1

\* the samples the call of this step appended to player_tracks
NewPlayers == SubSeq(player_tracks', Len(player_tracks) + 1, Len(player_tracks'))

\* the call of this step carried a ball
FrameHasBall == Len(ball_tracks') = Len(ball_tracks) + 1

\* the possession log grew by exactly one span, of the given player
LoggedOne(player) ==
    /\ Len(possession_events') = Len(possession_events) + 1
    /\ SubSeq(possession_events', 1, Len(possession_events)) = possession_events
    /\ possession_events'[Len(possession_events')].player_id = player

\* the run so far lasted at least possession_threshold * fps frames
RunLongEnough == a_run[1].len * possession_threshold[2] >= possession_threshold[1] * fps

\* the call of this step is the first one of a run whose ball is out of range
\* of the run's player: one ball, and no player but that one, 80 px or more away
BallLeftRange ==
    /\ a_run # <<>>
    /\ a_run' = <<>>
    /\ FrameHasBall
    /\ \A i \in 1..Len(NewPlayers) :
          /\ NewPlayers[i].track_id = a_run[1].player
          /\ calculate_distance_sq(ball_tracks'[Len(ball_tracks')].center, NewPlayers[i].center)
                >= PxSq(possession_distance_threshold)

\* C4: with strictly increasing frame indices, while one ball and one player
\* stay less than 80 px apart nothing is logged, and once they have done so
\* for at least possession_threshold * fps frames, the first frame whose ball
\* is out of range appends exactly one span of that player to the log.
C4_SpanLoggedWhenBallLeaves ==
    [][ (IsUpdateTracks /\ a_increasing') =>
          /\ (a_run # <<>> /\ a_run' # <<>> /\ a_run'[1].player = a_run[1].player)
                => possession_events' = possession_events
          /\ (BallLeftRange /\ RunLongEnough) => LoggedOne(a_run[1].player) ]_vars

\* C4 witness: at 5 fps, the only player of the run held the ball for three
\* frames and the span was logged in the frame the ball went out of range.
C4_Witness ==
    /\ fps = 5
    /\ a_increasing
    /\ a_run = <<>>
    /\ Len(possession_events) = 1
    /\ possession_events[1].end_frame = a_frame
    /\ Len(possession_events[1].positions) >= 3
    /\ \A i \in 1..Len(player_tracks) : player_tracks[i].track_id = 1
    /\ Len(ball_tracks) = Len(player_tracks)

\* the spans at i and i + 1 of the log are of two players, the second span
\* starting 3 frames after the first ends and at most 50 px from it
GapThreePair(i) ==
    LET first == possession_events[i]
        next == possession_events[i + 1]
    IN /\ first.player_id # next.player_id
       /\ next.start_frame = first.end_frame[1] + 3
       /\ calculate_distance_sq(first.positions[Len(first.positions)], next.positions[1])
            <= PxSq(pass_threshold_distance)

\* C5 (as claimed): two consecutive logged spans, the second starting 3
\* frames after the first ends and at most 50 px away, have a pass event
\* from the first span's player to the second's in the pass log.
C5_PassRecordedForGapThree ==
    \A i \in 1..(Len(possession_events) - 1) :
        GapThreePair(i) =>
            \E k \in 1..Len(pass_events) :
                /\ pass_events[k].from_player = possession_events[i].player_id
                /\ pass_events[k].to_player = possession_events[i + 1].player_id
                /\ pass_events[k].frame_id = possession_events[i].end_frame[1]

\* the event e is the pass event of the spans at i and i + 1 of the log
EventOfPair(e, i) ==
    LET first == possession_events[i]
        next == possession_events[i + 1]
    IN /\ next.start_frame - first.end_frame[1] <= pass_threshold_frames
       /\ calculate_distance_sq(first.positions[Len(first.positions)], next.positions[1])
            <= PxSq(pass_threshold_distance)
       /\ e.distance_sq = calculate_distance_sq(first.positions[Len(first.positions)],
                                                next.positions[1])
       /\ e.from_player = first.player_id
       /\ e.to_player = next.player_id
       /\ e.from_team = first.team
       /\ e.to_team = next.team
       /\ e.frame_id = first.end_frame[1]

\* C6 (as claimed): every event of the pass log is the event of two spans
\* adjacent in the possession log, at most 5 frames and at most 50 px apart.
C6_PassFromAdjacentSpans ==
    \A k \in 1..Len(pass_events) :
        \E i \in 1..(Len(possession_events) - 1) : EventOfPair(pass_events[k], i)

\* C7: with strictly increasing frame indices every logged span starts no
\* later than it ends, starts no earlier than the span logged before it
\* ends, and the open span starts no earlier than the last logged span ends.
C7_SpansNeverOverlap ==
    a_increasing =>
        /\ \A i \in 1..Len(possession_events) :
              possession_events[i].start_frame <= possession_events[i].end_frame[1]
        /\ \A i \in 1..(Len(possession_events) - 1) :
              possession_events[i + 1].start_frame >= possession_events[i].end_frame[1]
        /\ (current_possession # <<>> /\ possession_events # <<>>) =>
              current_possession[1].start_frame
                 >= possession_events[Len(possession_events)].end_frame[1]

\* C7 witness: two spans logged and a third one open, frame indices increasing
C7_Witness ==
    /\ a_increasing
    /\ Len(possession_events) >= 2
    /\ current_possession # <<>>
    /\ current_possession[1].start_frame = possession_events[Len(possession_events)].end_frame[1]

\* every entry of the log is closed, with duration = end_frame - start_frame
LogEntriesClosed ==
    \A i \in 1..Len(possession_events) :
        /\ possession_events[i].end_frame # <<>>
        /\ possession_events[i].duration
              = possession_events[i].end_frame[1] - possession_events[i].start_frame

\* the open span is not an entry of the log
OpenSpanNotLogged ==
    current_possession # <<>> =>
        /\ current_possession[1].end_frame = <<>>
        /\ \A i \in 1..Len(possession_events) : possession_events[i] # current_possession[1]

\* C8: update_tracks leaves the entries of the possession log as they are
\* and appends at most one; every entry is closed with duration =
\* end_frame - start_frame; the open span is never an entry of the log.
C8_LogAppendOnly ==
    [][ /\ IsUpdateTracks =>
            /\ Len(possession_events') \in {Len(possession_events), Len(possession_events) + 1}
            /\ SubSeq(possession_events', 1, Len(possession_events)) = possession_events
        /\ LogEntriesClosed'
        /\ OpenSpanNotLogged' ]_vars

\* C8 witness: a call that appended the third span to the log and opened another
C8_Witness ==
    /\ a_op = "update_tracks"
    /\ Len(possession_events) = 3
    /\ possession_events[3].end_frame = a_frame
    /\ current_possession # <<>>

\* the call of this step closed the open span
SpanCloses ==
    /\ IsUpdateTracks
    /\ current_possession # <<>>
    /\ \/ current_possession' = <<>>
       \/ current_possession'[1].player_id # current_possession[1].player_id

\* C9 (as claimed): a closing span is appended to the log, and its duration
\* added to its team's time and to the total, if and only if end_frame -
\* start_frame >= possession_threshold * fps, the exact product; otherwise
\* the log and the times stay as they are.
C9_LoggedIffExactThreshold ==
    [][ SpanCloses =>
          LET span == current_possession[1]
              duration == a_frame'[1] - span.start_frame
          IN IF duration * possession_threshold[2] >= possession_threshold[1] * fps
             THEN /\ LoggedOne(span.player_id)
                  /\ team_possession_time'
                        = [team_possession_time EXCEPT ![span.team] = @ + duration]
                  /\ total_possession_time' = total_possession_time + duration
             ELSE /\ possession_events' = possession_events
                  /\ team_possession_time' = team_possession_time
                  /\ total_possession_time' = total_possession_time ]_vars

\* C10: after reset() every field is as on a new analyzer, and so are the
\* statistics; a second reset() changes nothing more.
C10_ResetRestoresNewState ==
    a_resets >= 1 =>
        /\ ball_tracks = <<>>
        /\ player_tracks = <<>>
        /\ possession_events = <<>>
        /\ pass_events = <<>>
        /\ current_possession = <<>>
        /\ possession_history = <<>>
        /\ team_possession_time = NoTime
        /\ total_possession_time = 0
        /\ get_possession_stats = new_possession_stats
        /\ get_pass_stats = new_pass_stats

\* C10 witness: reset() called twice on an analyzer that had logged spans,
\* recorded a pass and had a span open
C10_Witness ==
    /\ a_resets = 2
    /\ a_cleared.events >= 2
    /\ a_cleared.passes >= 1
    /\ a_cleared.open


\* ------------------------------------------------------------------------
\* Claims about the tracker
\* ------------------------------------------------------------------------
\* a step of Tracker.update
IsTrackerUpdate == t_frame_id' = t_frame_id + 1

\* the ids the call of this step put into the live table
NewIds == DOMAIN tracks' \ DOMAIN tracks

C2_LostTrackRemoved ==
    t_op = "update" =>
        \A id \in DOMAIN tracks :
            tracks[id].time_since_update <= class_params[tracks[id].class_name].max_time_lost

\* C3: an update call leaves every track that was live before it and that it
\* does not match with time_since_update one higher, and every track it
\* matches or creates with time_since_update 0.
C3_TimeSinceUpdate ==
    [][ IsTrackerUpdate =>
          \A id \in DOMAIN tracks' :
             IF id \in t_matched' \cup t_created'
             THEN tracks'[id].time_since_update = 0
             ELSE /\ id \in DOMAIN tracks
                  /\ tracks'[id].time_since_update = tracks[id].time_since_update + 1 ]_vars

\* C3 witness: a call that matched one track and left another, unmatched for
\* some frames already, unmatched once more
C3_Witness ==
    /\ \E id \in t_matched : tracks[id].time_since_update = 0 /\ tracks[id].age = 2
    /\ \E id \in DOMAIN tracks \ (t_matched \cup t_created) :
          tracks[id].time_since_update >= 2
    /\ tracked_objects # <<>>

\* a step of Tracker.update with an empty detection list
IsEmptyUpdate == IsTrackerUpdate /\ t_detections' = <<>>

\* the ids of the objects the call of this step returned
ReportedIds == {tracked_objects'[k].track_id : k \in 1..Len(tracked_objects')}

\* the live tracks that are below 10 unmatched frames after this step
BelowTen == {id \in DOMAIN tracks' : tracks'[id].time_since_update < 10}

\* C11: an update call with an empty detection list returns one predicted
\* object for each live track whose time_since_update is then below 10 and
\* for no other, creates and removes no track and leaves the id counter and
\* every field of every track but time_since_update as they were.
C11_EmptyListPredictsOnly ==
    [][ IsEmptyUpdate =>
          /\ DOMAIN tracks' = DOMAIN tracks
          /\ \A id \in DOMAIN tracks :
                tracks'[id] = [tracks[id] EXCEPT !.time_since_update = @ + 1]
          /\ track_id_count' = track_id_count
          /\ removed_tracks' = removed_tracks
          /\ t_created' = {}
          /\ ReportedIds = BelowTen
          /\ Len(tracked_objects') = Cardinality(BelowTen)
          /\ \A k \in 1..Len(tracked_objects') :
                LET o == tracked_objects'[k]
                IN /\ o.bbox = predict(tracks'[o.track_id], t_frame_id')
                   /\ o.class = tracks'[o.track_id].class_name ]_vars

\* C11 witness: an empty call that reported one track and left out another,
\* then unmatched for 10 frames
C11_Witness ==
    /\ t_op = "update"
    /\ t_detections = <<>>
    /\ \E id \in DOMAIN tracks : tracks[id].time_since_update = 10
    /\ \E k \in 1..Len(tracked_objects) :
          tracks[tracked_objects[k].track_id].time_since_update = 9

\* C12: a track keeps the class it was created with, and an update call
\* updates a track only from a detection of the track's class and creates
\* tracks only of the class of a detection of the call.
C12_ClassFixedAndSeparate ==
    [][ IsTrackerUpdate =>
          /\ \A id \in DOMAIN tracks \cap DOMAIN tracks' :
                tracks'[id].class_name = tracks[id].class_name
          /\ \A p \in t_updated_from' :
                /\ p[1] \in DOMAIN tracks
                /\ tracks[p[1]].class_name = p[2]
          /\ t_matched' = {p[1] : p \in t_updated_from'}
          /\ \A id \in t_created' :
                \E j \in 1..Len(t_detections') :
                   /\ t_detections'[j].class = tracks'[id].class_name
                   /\ t_detections'[j].bbox = tracks'[id].bbox ]_vars

\* C12 witness: a call with a person and a ball detection that updated a
\* person track and a ball track, the ball detection overlapping the person
\* track's smoothed box by more than the person match threshold
C12_Witness ==
    /\ \E p, b \in t_updated_from :
          /\ p[2] = "person" /\ tracks[p[1]].class_name = "person"
          /\ b[2] = "ball" /\ tracks[b[1]].class_name = "ball"
          /\ tracks[p[1]].bbox # tracks[b[1]].bbox
          /\ FracGt(compute_iou(get_smoothed_bbox(tracks[p[1]]), Scaled(tracks[b[1]].bbox)),
                    <<class_params["person"].match_thresh, 10>>)

\* ------------------------------------------------------------------------
\* Claims about the statistics
\* ------------------------------------------------------------------------
\* the fields of the possession-stats and of the pass-stats contract
PossessionStatsFields ==
    {"team_a_percentage", "team_b_percentage", "total_possession_time",
     "possession_events", "passes", "current_possession"}
PassStatsFields ==
    {"total_passes", "successful_passes", "pass_success_rate",
     "team_a_passes", "team_b_passes", "recent_passes"}

\* C13: in every state of an analyzer built with positive fps both
\* statistics calls return, without raising, a record that has every field
\* of its contract.
C13_StatsNeverRaise ==
    fps > 0 =>
        LET possession_fields == DOMAIN get_possession_stats
            pass_fields == DOMAIN get_pass_stats
        IN /\ "raised" \notin possession_fields
           /\ PossessionStatsFields \subseteq possession_fields
           /\ "raised" \notin pass_fields
           /\ PassStatsFields \subseteq pass_fields

\* C13 witness: statistics computed from logged possession time and from
\* recorded passes, both by division
C13_Witness ==
    /\ total_possession_time > 0
    /\ team_possession_time["team_b"] > 0
    /\ pass_events # <<>>
    /\ get_possession_stats.team_a_percentage[1] < 100
    /\ get_pass_stats.pass_success_rate = <<100, 1>>

\* C14 (as claimed): a non-positive fps having been rejected at
\* construction, no update_tracks call of a constructed analyzer fails by
\* dividing a span's duration by fps.
C14_NoCallFails == a_raised = "none"

\* ------------------------------------------------------------------------
\* Claims about the four-frame scenario
\* ------------------------------------------------------------------------
\* the span of player 1 over frames 1 to 3
Player1Span(span) ==
    /\ span.player_id = 1
    /\ span.start_frame = 1
    /\ span.end_frame = <<3>>
    /\ span.duration = 2

InteriorsApart(bbox1, bbox2) ==
    \/ bbox1[1] + bbox1[3] <= bbox2[1]
    \/ bbox2[1] + bbox2[3] <= bbox1[1]
    \/ bbox1[2] + bbox1[4] <= bbox2[2]
    \/ bbox2[2] + bbox2[4] <= bbox1[2]

\* C16: compute_iou(a, a) is 1 for every box a of positive width and height,
\* and compute_iou(a, b) is 0 for boxes whose interiors do not intersect,
\* boxes that only touch along an edge included.
C16_IouOneOrZero ==
    (c_fn = "compute_iou" /\ c_result # <<>>) =>
        /\ c_args[1] = c_args[2] => c_result[1] = FloatOne
        /\ InteriorsApart(c_args[1], c_args[2]) => c_result[1] = FloatZero

Abs(n) == IF n < 0 THEN 0 - n ELSE n

\* C17: every update of a track matched in consecutive frames sets the
\* smoothed centre to 0.7 x (centre of the new detection) + 0.3 x (previous
\* smoothed centre); so for a track updated every frame with one fixed box
\* the distance from the smoothed centre to the box's centre is multiplied
\* by 0.3 at every update, and a track created from that box stays exactly
\* on its centre.
C17_SmoothedCentre ==
    [][c_fn' = "update" =>
         LET c == center_float(c_args[2])
             old == c_result[1]
             new == c_result'[1]
         IN /\ 10 * new.kf_x = 7 * c[1] + 3 * old.kf_x
            /\ 10 * new.kf_y = 7 * c[2] + 3 * old.kf_y
            /\ 10 * Abs(new.kf_x - c[1]) = 3 * Abs(old.kf_x - c[1])
            /\ 10 * Abs(new.kf_y - c[2]) = 3 * Abs(old.kf_y - c[2])
            /\ c_args[1] = c_args[2] => (new.kf_x = c[1] /\ new.kf_y = c[2])]_vars

\* C18: every event of the pass log has successful = true; so whenever the
\* pass log is non-empty, get_pass_stats reports successful_passes =
\* total_passes = the length of the pass log and pass_success_rate = 100.
C18_PassesAlwaysSuccessful ==
    /\ \A k \in 1..Len(pass_events) : pass_events[k].successful
    /\ pass_events # <<>> =>
          LET stats == get_pass_stats
          IN /\ stats.successful_passes = Len(pass_events)
             /\ stats.total_passes = Len(pass_events)
             /\ stats.pass_success_rate = <<100, 1>>

\* C18 witness: update_tracks has recorded a pass from one team to the other
C18_Witness ==
    /\ a_op = "update_tracks"
    /\ \E k \in 1..Len(pass_events) : pass_events[k].from_team # pass_events[k].to_team
    /\ get_pass_stats.total_passes = Len(pass_events)

\* C19 (as claimed): the removal scan of an update call applies each
\* track's class-specific tolerance: an unmatched person track is deleted
\* only once its time_since_update exceeds 20 and an unmatched ball track as
\* soon as its time_since_update exceeds 10.
C19_ScanUsesClassTolerance ==
    [][(IsTrackerUpdate /\ t_detections' # <<>>) =>
          \A id \in DOMAIN tracks \ t_matched' :
              (id \notin DOMAIN tracks') <=>
                  (tracks[id].time_since_update + 1 >
                       class_params[tracks[id].class_name].max_time_lost)]_vars

\* ------------------------------------------------------------------------
\* Claims about _match_tracks
\* ------------------------------------------------------------------------
\* the IoU of detection j against the smoothed box of track id
IouOf(id, j) == compute_iou(get_smoothed_bbox(c_args[1][id]), Scaled(c_args[2][j]))

\* the detection the call gave to track id: <<>> or <<j>>
TakenBy(id) ==
    LET pairs == {k \in 1..Len(c_result[1].matched) : c_result[1].matched[k][1] = id}
    IN IF pairs = {} THEN <<>>
       ELSE <<c_result[1].matched[CHOOSE k \in pairs : TRUE][2]>>

\* the detections no track of a lower id took
LeftFor(id) ==
    {j \in 1..Len(c_args[2]) :
        \A lower \in DOMAIN c_args[1] : lower < id => TakenBy(lower) # <<j>>}

\* the detections left for track id whose IoU is strictly above the
\* class's match threshold
Qualifying(id) ==
    {j \in LeftFor(id) : FracGt(IouOf(id, j), <<class_params[c_args[3]].match_thresh, 10>>)}

UnmatchedDets ==
    LET m == match_tracks(c_args[1], [j \in 1..Len(c_args[2]) |-> c_args[2][j].bbox],
                          c_args[3])
    IN {m.unmatched[k] : k \in 1..Len(m.unmatched)}

\* the tracks of the table that take a detection
MatchedIds ==
    LET m == match_tracks(c_args[1], [j \in 1..Len(c_args[2]) |-> c_args[2][j].bbox],
                          c_args[3])
    IN {m.matched[k][1] : k \in 1..Len(m.matched)}

\* the tracks the call created
MadeIds == DOMAIN c_result[1].tracks \ DOMAIN c_args[1]

\* C21: in a frame with detections, a person or ball detection that no
\* existing track takes creates exactly one new track if and only if its
\* score is strictly greater than the creation threshold (0.3, scores being
\* in tenths); a detection at or below the threshold creates nothing and is
\* kept nowhere: the call changes no track but the matched and the new ones.
C21_UnmatchedDetectionCreates ==
    (c_fn = "_update_class_tracks" /\ c_result # <<>>) =>
        LET dets == c_args[2]
            strong == {j \in UnmatchedDets : dets[j].score > 3}
            after == c_result[1]
        IN /\ Cardinality(MadeIds) = Cardinality(strong)
           /\ \A j \in strong : \E id \in MadeIds :
                 /\ after.tracks[id].history = << <<dets[j].bbox, dets[j].score, ClassFrame>> >>
                 /\ after.tracks[id].class_name = c_args[3]
           /\ after.created = MadeIds
           /\ after.count = ClassCount + Cardinality(MadeIds)
           /\ DOMAIN c_args[1] \subseteq DOMAIN after.tracks
           /\ \A id \in DOMAIN c_args[1] \ MatchedIds : after.tracks[id] = c_args[1][id]

\* C21 witness: the table has tracks, neither of the two detections matched
\* one; the one above the threshold made a track, the one at the threshold
\* made none
C21_Witness ==
    /\ c_fn = "_update_class_tracks"
    /\ c_result # <<>>
    /\ DOMAIN c_args[1] # {}
    /\ Len(c_args[2]) = 2
    /\ UnmatchedDets = {1, 2}
    /\ c_args[2][1].score = track_thresh
    /\ c_args[2][2].score > track_thresh
    /\ Cardinality(MadeIds) = 1

\* ------------------------------------------------------------------------
\* Claims about the possession state machine
\* ------------------------------------------------------------------------
\* the player samples of the frame of this step's call
FramePlayers ==
    SelectSeq(player_tracks', LAMBDA p : p.frame_id = a_frame'[1])

\* the distance, squared, from the ball (the last ball sample) to a sample
BallDistanceSq(p) == calculate_distance_sq(ball_tracks'[Len(ball_tracks')].center, p.center)

\* the players of the frame that are in range of the ball and nearest to it
NearestInRange ==
    IF ball_tracks' = <<>> THEN {}
    ELSE {FramePlayers[i].track_id : i \in
             {i \in 1..Len(FramePlayers) :
                 /\ BallDistanceSq(FramePlayers[i]) < PxSq(80)
                 /\ \A j \in 1..Len(FramePlayers) :
                       BallDistanceSq(FramePlayers[i]) <= BallDistanceSq(FramePlayers[j])}}

\* C22: when in frame f a span is open for player A and the in-range player
\* nearest the ball is another player B, then at the end of update_tracks(f)
\* A's span has been closed with end_frame = f (logged, or discarded by the
\* minimum-duration filter) and the open span is B's, with start_frame = f.
C22_HandoverInOneFrame ==
    [][(IsUpdateTracks /\ current_possession # <<>>) =>
          \A B \in NearestInRange :
              (NearestInRange = {B} /\ B # current_possession[1].player_id) =>
                  /\ current_possession' # <<>>
                  /\ current_possession'[1].player_id = B
                  /\ current_possession'[1].start_frame = a_frame'[1]
                  /\ \/ possession_events' = possession_events
                     \/ possession_events' =
                           Append(possession_events,
                                  [current_possession[1] EXCEPT
                                      !.end_frame = a_frame',
                                      !.duration = a_frame'[1] - current_possession[1].start_frame])]_vars

\* C22 witness: player 1's span was closed and logged in the frame in which
\* player 2's span opened
C22_Witness ==
    /\ a_op = "update_tracks"
    /\ current_possession # <<>>
    /\ current_possession[1].player_id = 2
    /\ current_possession[1].start_frame = a_frame[1]
    /\ possession_events # <<>>
    /\ possession_events[Len(possession_events)].player_id = 1
    /\ possession_events[Len(possession_events)].end_frame = a_frame

\* C23: for strictly increasing frame indices, and once a ball sample and a
\* player sample have been recorded, at the end of update_tracks(f) a span
\* is open if and only if some player sample of frame f is strictly less
\* than 80 px from the ball's centre, and the open span's player is then the
\* nearest such player; if no player of frame f is that close, or frame f
\* has no player, no span is open.
C23_OpenIffPlayerInRange ==
    [][(IsUpdateTracks /\ a_increasing' /\ ball_tracks' # <<>> /\ player_tracks' # <<>>) =>
          /\ current_possession' # <<>> <=> NearestInRange # {}
          /\ current_possession' # <<>> =>
                current_possession'[1].player_id \in NearestInRange]_vars

\* C23 witness: the frame of the last call had no player; the span that was
\* open was closed and logged in it, and no span is open
C23_Witness ==
    /\ a_op = "update_tracks"
    /\ a_increasing
    /\ ball_tracks # <<>>
    /\ \A i \in 1..Len(player_tracks) : player_tracks[i].frame_id # a_frame[1]
    /\ possession_events # <<>>
    /\ possession_events[Len(possession_events)].end_frame = a_frame
    /\ current_possession = <<>>

\* the call of this step opened a span
SpanOpened ==
    /\ current_possession' # <<>>
    /\ \/ current_possession = <<>>
       \/ current_possession'[1].player_id # current_possession[1].player_id
       \/ current_possession'[1].start_frame # current_possession[1].start_frame

\* C24 (as claimed): a span is opened in frame f only if a ball was tracked
\* in frame f itself and its centre is within 80 px of a player's centre of
\* frame f; a frame that carries no ball object neither opens nor extends a
\* span.
C24_NoBallNoSpan ==
    [][IsUpdateTracks =>
          /\ SpanOpened => (FrameHasBall /\ NearestInRange # {})
          /\ ~FrameHasBall =>
                (current_possession' = <<>> \/ current_possession' = current_possession)]_vars

\* the centres of the samples of a player in the frame of this step's call
CentresOf(player) ==
    {FramePlayers[i].center : i \in {i \in 1..Len(FramePlayers) :
                                        FramePlayers[i].track_id = player}}

\* C25: while the same player remains the nearest in-range player over
\* consecutive frames, the open span keeps its player_id, team and
\* start_frame, gains exactly one position (that player's centre) per frame,
\* has duration = current frame index - start_frame after each frame, and
\* nothing is added to the possession log or to the possession-time totals.
C25_SamePlayerExtendsSpan ==
    [][(/\ IsUpdateTracks
        /\ a_increasing'
        /\ current_possession # <<>>
        /\ NearestInRange = {current_possession[1].player_id}) =>
          /\ \E c \in CentresOf(current_possession[1].player_id) :
                current_possession' =
                    << [current_possession[1] EXCEPT
                           !.positions = Append(@, c),
                           !.duration = a_frame'[1] - current_possession[1].start_frame] >>
          /\ possession_events' = possession_events
          /\ team_possession_time' = team_possession_time
          /\ total_possession_time' = total_possession_time]_vars

\* C25 witness: a span extended over three frames that are not adjacent
C25_Witness ==
    /\ a_op = "update_tracks"
    /\ a_increasing
    /\ current_possession # <<>>
    /\ Len(current_possession[1].positions) = 3
    /\ current_possession[1].duration = a_frame[1] - current_possession[1].start_frame
    /\ current_possession[1].duration > 2
    /\ possession_events = <<>>

\* C26 (as claimed): the pass log never holds two events for the same pair
\* of possession spans (same from_player, to_player and frame index).
C26_PassRecordedOnce ==
    \A i \in 1..Len(pass_events) : \A j \in 1..Len(pass_events) :
        (/\ pass_events[i].from_player = pass_events[j].from_player
         /\ pass_events[i].to_player = pass_events[j].to_player
         /\ pass_events[i].frame_id = pass_events[j].frame_id) => i = j

\* C27: with a minimum span length of 5 frames or more and frame indices
\* that never decrease, the pass log is empty after any sequence of
\* update_tracks calls, because two logged spans are never both inside the
\* 5-frame window that pass detection examines.
C27_NoPassWithLongSpans ==
    (frame_threshold >= 5 /\ a_frame # <<>>) =>
        /\ pass_events = <<>>
        /\ Len(SelectSeq(possession_events,
                         LAMBDA p : a_frame[1] - p.end_frame[1] < 5)) <= 1

\* C27 witness: two spans of 5 frames are logged, the second one starting in
\* the frame the first one ended and 40 px from it
C27_Witness ==
    /\ frame_threshold = 5
    /\ Len(possession_events) = 2
    /\ possession_events[1].duration = 5
    /\ possession_events[2].duration = 5
    /\ possession_events[2].start_frame = possession_events[1].end_frame[1]
    /\ possession_events[2].end_frame = a_frame
    /\ possession_events[1].player_id # possession_events[2].player_id
    /\ pass_events = <<>>

\* ------------------------------------------------------------------------
\* Claims about the possession times
\* ------------------------------------------------------------------------
\* the sum over the logged spans of duration / fps, added in log order
RECURSIVE LoggedTime(_, _)
LoggedTime(events, the_fps) ==
    IF events = <<>> THEN 0
    ELSE fl(LoggedTime(SubSeq(events, 1, Len(events) - 1), the_fps)
            + float_div(events[Len(events)].duration, the_fps))

\* C28: total_possession_time equals the sum over the logged spans of
\* duration / fps and equals team A's plus team B's cumulative time (no
\* logged span carries another team); so whenever it is positive the
\* reported team_a_percentage and team_b_percentage add up to 100.
C28_TimesAddUp ==
    c_fn \in {"BallPossessionAnalyzer", "_end_possession"} =>
        LET tt == c_result[1]
        IN /\ tt.total = LoggedTime(tt.events, c_args[1])
           /\ \A k \in 1..Len(tt.events) : tt.events[k].team \in {"team_a", "team_b"}
           /\ tt.total = fl(tt.team_a + tt.team_b)
           /\ tt.total > 0 =>
                 fl(percentage_float(tt.team_a, tt.total)
                    + percentage_float(tt.team_b, tt.total)) = 100 * FloatOne

\* ------------------------------------------------------------------------
\* Claims about get_possession_stats
\* ------------------------------------------------------------------------
\* C29: in every state get_possession_stats reports possession_events = the
\* length of the possession log, passes = the length of the pass log and
\* current_possession = the open span, or none when no span is open.
C29_StatsReportTheLogs ==
    LET stats == get_possession_stats
    IN /\ stats.possession_events = Len(possession_events)
       /\ stats.passes = Len(pass_events)
       /\ stats.current_possession = current_possession

\* C29 witness: a span is open while the log holds spans and a pass
C29_Witness ==
    /\ a_op = "update_tracks"
    /\ current_possession # <<>>
    /\ possession_events # <<>>
    /\ pass_events # <<>>

\* ------------------------------------------------------------------------
\* Claims about the team of a span
\* ------------------------------------------------------------------------
\* the x-coordinates (half pixels) of all samples recorded for a player up
\* to and including the frame of this step's call
SamplesOf(player) ==
    LET mine == SelectSeq(player_tracks', LAMBDA p : p.track_id = player)
    IN [i \in 1..Len(mine) |-> mine[i].center[1]]

\* C30: a span's team is fixed when the span opens: team_a if the mean x of
\* all centre samples recorded so far for that player (the opening frame's
\* included) is below 500, team_b otherwise; it is never 'unknown', and
\* samples recorded later do not change the team of an open or logged span.
C30_TeamFixedAtOpening ==
    [][IsUpdateTracks =>
          /\ SpanOpened =>
                LET xs == SamplesOf(current_possession'[1].player_id)
                IN /\ xs # <<>>
                   /\ current_possession'[1].team =
                         IF SumSeq(xs) < 2 * 500 * Len(xs) THEN "team_a" ELSE "team_b"
          /\ (current_possession' # <<>> /\ ~SpanOpened) =>
                current_possession'[1].team = current_possession[1].team
          /\ Len(possession_events') >= Len(possession_events)
          /\ \A k \in 1..Len(possession_events') :
                /\ possession_events'[k].team \in {"team_a", "team_b"}
                /\ possession_events'[k].team =
                      IF k <= Len(possession_events) THEN possession_events[k].team
                      ELSE current_possession[1].team]_vars

\* C30 witness: a logged span and the open span are team_a spans of player 1,
\* whose mean x has since moved to the right of the midpoint
C30_Witness ==
    /\ a_op = "update_tracks"
    /\ current_possession # <<>>
    /\ current_possession[1].player_id = 1
    /\ current_possession[1].team = "team_a"
    /\ current_possession[1].duration > 0
    /\ get_player_team(1, player_tracks) = "team_b"
    /\ \E k \in 1..Len(possession_events) :
          /\ possession_events[k].player_id = 1
          /\ possession_events[k].team = "team_a"

\* ------------------------------------------------------------------------
\* Claims about the life of a track
\* ------------------------------------------------------------------------
\* C35 (as claimed): a track's age is 1 at creation and grows by one on
\* every later update call while the track is live, whether or not the
\* track is matched in that call.
C35_AgeCountsFrames ==
    [][ IsTrackerUpdate =>
          \A id \in DOMAIN tracks' :
             tracks'[id].age = IF id \in DOMAIN tracks THEN tracks[id].age + 1 ELSE 1 ]_vars

\* ------------------------------------------------------------------------
\* Claims about degenerate detections
\* ------------------------------------------------------------------------
\* the detections of this step's call whose width or height is not positive
DegenerateDets ==
    {j \in 1..Len(t_detections') :
        t_detections'[j].bbox[3] <= 0 \/ t_detections'[j].bbox[4] <= 0}

\* C31: a detection whose width or height is zero or negative has IoU 0 with
\* every track box, so no track is updated from it; if its score exceeds
\* the creation threshold the call creates a track from it, in every frame
\* in which it appears.
C31_DegenerateNeverMatched ==
    [][ IsTrackerUpdate =>
          \A j \in DegenerateDets :
             LET det == t_detections'[j]
             IN /\ \A id \in DOMAIN tracks :
                      compute_iou(get_smoothed_bbox(tracks[id]), Scaled(det.bbox)) = <<0, 1>>
                /\ \A id \in DOMAIN tracks' :
                      compute_iou(get_smoothed_bbox(tracks'[id]), Scaled(det.bbox)) = <<0, 1>>
                /\ \A id \in t_matched' : tracks'[id].bbox # det.bbox
                /\ det.score > track_thresh =>
                      \E id \in t_created' :
                         /\ id \notin DOMAIN tracks
                         /\ tracks'[id].history = << <<det.bbox, det.score, t_frame_id'>> >>
                /\ det.score <= track_thresh =>
                      \A id \in t_created' : tracks'[id].bbox # det.bbox ]_vars

\* C31 witness: the same degenerate detection was shown in two frames next
\* to a person track and made a track in each
C31_Witness ==
    /\ t_op = "update"
    /\ \E a, b \in DOMAIN tracks :
          /\ a # b
          /\ tracks[a].bbox = tracks[b].bbox
          /\ tracks[a].bbox[3] < 0
          /\ tracks[a].bbox[4] < 0
          /\ tracks[a].age = 1
          /\ tracks[b].age = 1
          /\ tracks[b].frame_id = t_frame_id
    /\ \E id \in t_matched : tracks[id].bbox[3] > 0

\* the union area of two boxes in exact arithmetic
ExactUnion(bbox1, bbox2) ==
    LET w == Max2(0, Min2(bbox1[1] + bbox1[3], bbox2[1] + bbox2[3]) - Max2(bbox1[1], bbox2[1]))
        h == Max2(0, Min2(bbox1[2] + bbox1[4], bbox2[2] + bbox2[4]) - Max2(bbox1[2], bbox2[2]))
    IN bbox1[3] * bbox1[4] + bbox2[3] * bbox2[4] - w * h

\* C32 (as claimed): compute_iou returns a value in [0, 1] for every pair of
\* boxes, boxes of zero or negative width or height included, and returns 0
\* whenever the union area is not positive.
C32_IouInUnitInterval ==
    (c_fn = "compute_iou" /\ c_result # <<>>) =>
        /\ c_result[1] >= FloatZero
        /\ c_result[1] <= FloatOne
        /\ ExactUnion(c_args[1], c_args[2]) <= 0 => c_result[1] = FloatZero

LastScores(t) ==
    LET n == Len(t.history)
        first == IF n > 10 THEN n - 9 ELSE 1
    IN [k \in 1..(n - first + 1) |-> t.history[first + k - 1][2]]

\* C34: a track is not confirmed at creation; a matched update confirms it
\* if its age is then at least 3 and the mean of its last (at most 10)
\* confidence samples exceeds 0.5, and a confirmed track stays confirmed
\* even if that mean later falls to 0.5 or below.
C34_ConfirmedOnceStable ==
    [][ c_fn' = "AdvancedTrack.update" =>
          LET old == c_result[1]
              new == c_result'[1]
              scores == LastScores(new)
          IN /\ c_fn = "AdvancedTrack.__init__" => ~old.is_confirmed
             /\ new.is_confirmed <=>
                   \/ old.is_confirmed
                   \/ new.age >= 3 /\ SumSeq(scores) > 5 * Len(scores) ]_vars

\* C34 witness: a confirmed track built from more than 10 detections whose
\* last 10 scores have a mean of 0.5 or less
C34_Witness ==
    /\ c_fn = "AdvancedTrack.update"
    /\ c_result[1].is_confirmed
    /\ Len(c_result[1].history) > 10
    /\ SumSeq(LastScores(c_result[1])) <= 5 * 10

\* ------------------------------------------------------------------------
\* Claims about the output and the live table of a call with detections
\* ------------------------------------------------------------------------
\* a step of Tracker.update that carried at least one detection
IsDetectionUpdate == IsTrackerUpdate /\ t_detections' # <<>>

\* the tracks of the table before the call that the call matched: update
\* of a track is the only place that sets time_since_update back to 0
UpdatedIds ==
    {id \in DOMAIN tracks \cap DOMAIN tracks' : tracks'[id].time_since_update = 0}

\* C36: in an update call with at least one detection the returned list
\* holds exactly the tracks matched in the call and the tracks created in
\* the call, each track id once; a live track left unmatched is not in it.
C36_OutputIsMatchedAndCreated ==
    [][ IsDetectionUpdate =>
          /\ ReportedIds = UpdatedIds \cup NewIds
          /\ UpdatedIds = t_matched'
          /\ Len(tracked_objects') = Cardinality(ReportedIds)
          /\ \A id \in DOMAIN tracks' :
                tracks'[id].time_since_update > 0 => id \notin ReportedIds ]_vars

\* C36 witness: a call with detections that reported the track it created
\* and nothing else, and left out a live track of the other class that has
\* gone unmatched for fewer than 10 frames
C36_Witness ==
    /\ t_op = "update"
    /\ t_detections # <<>>
    /\ t_created # {}
    /\ \A k \in 1..Len(tracked_objects) : tracked_objects[k].track_id \in t_created
    /\ \E id \in DOMAIN tracks :
          /\ tracks[id].time_since_update \in 1..9
          /\ \A d \in 1..Len(t_detections) : t_detections[d].class # tracks[id].class_name
          /\ \A k \in 1..Len(tracked_objects) : tracked_objects[k].track_id # id

ChangedIds ==
    {id \in DOMAIN c_args[1] : c_result[1].tracks[id] # c_args[1][id]}

\* the fates of the detections: the id of the track a detection updated or
\* created, or -1 for a detection that was dropped
Fates == [1..Len(c_args[2]) -> DOMAIN c_result[1].tracks \cup {-1}]

\* C38: the matching is one-to-one, and every detection of the class is
\* accounted for in exactly one way: it updates one existing track, or it
\* creates one new track, or it is dropped, being unmatched with a score at
\* or below the creation threshold.
C38_EveryDetectionAccounted ==
    (c_fn = "_update_class_tracks" /\ c_result # <<>>) =>
        LET dets == c_args[2]
            before == c_args[1]
            after == c_result[1].tracks
        IN \E fate \in Fates :
              /\ \A j, k \in DOMAIN dets : (j # k /\ fate[j] = fate[k]) => fate[j] = -1
              /\ {fate[j] : j \in DOMAIN dets} \ {-1} = ChangedIds \cup MadeIds
              /\ ChangedIds = c_result[1].matched
              /\ \A j \in DOMAIN dets :
                    /\ fate[j] \in DOMAIN before =>
                          /\ after[fate[j]].age = before[fate[j]].age + 1
                          /\ after[fate[j]].history =
                                Append(before[fate[j]].history,
                                       <<dets[j].bbox, dets[j].score, ClassFrame>>)
                    /\ fate[j] \in MadeIds =>
                          /\ dets[j].score > track_thresh
                          /\ after[fate[j]].history =
                                << <<dets[j].bbox, dets[j].score, ClassFrame>> >>
                    /\ fate[j] = -1 => dets[j].score <= track_thresh

\* C38 witness: two detections and two tracks; one detection updated a
\* track, the other, above the threshold, created one, and one track of the
\* table took nothing
C38_Witness ==
    /\ c_fn = "_update_class_tracks"
    /\ c_result # <<>>
    /\ Len(c_args[2]) = 2
    /\ Cardinality(DOMAIN c_args[1]) = 2
    /\ Cardinality(ChangedIds) = 1
    /\ Cardinality(MadeIds) = 1

\* ------------------------------------------------------------------------
\* The real-time streaming loop (server.py, websocket_realtime_stream): one
\* tracker and one analyzer built for 30 frames per second serve the whole
\* session; every frame read goes through tracker.update and then through
\* possession_analyzer.update_tracks with the loop's frame_count
\* ------------------------------------------------------------------------
\* detection_interval = 10: the detector runs on every tenth frame
detection_interval == 10

\* the number of frames of the session's video
VideoFrames == 12

\* frame_count when a frame is read: 0 at the start; one more than at the
\* frame before (frame_count += 1 on both paths of the loop body); and 0
\* again once cap.read() has failed at the end of the video
frame_count ==
    IF a_frame = <<>> THEN 0
    ELSE IF a_frame[1] + 1 = VideoFrames THEN 0
    ELSE a_frame[1] + 1

\* a reported box in whole pixels
IsWholePixels(bbox) == \A i \in 1..4 : bbox[i][2] = 1

\* the tracker's output as the analyzer reads it (class, bbox, score, track_id)
AsObjects(out) ==
    [k \in 1..Len(out) |->
        [class |-> out[k].class,
         bbox |-> <<out[k].bbox[1][1], out[k].bbox[2][1], out[k].bbox[3][1], out[k].bbox[4][1]>>,
         score |-> out[k].score,
         track_id |-> out[k].track_id]]

\* one pass of the loop body on a frame that was read; the detector's
\* answer on a detection frame is any of the detection lists
RealtimeFrame ==
    /\ a_raised = "none"
    /\ t_frame_id < MaxFrames
    /\ IF frame_count % detection_interval = 0
       THEN \E detections \in DetectionLists : update(detections)
       ELSE update(<<>>)
    /\ \A k \in 1..Len(tracked_objects') : IsWholePixels(tracked_objects'[k].bbox)
    /\ update_tracks(AsObjects(tracked_objects'), frame_count)
    /\ a_frame' = <<frame_count>>
    /\ a_increasing' = (a_increasing /\ (a_frame = <<>> \/ frame_count > a_frame[1]))
    /\ a_run' = next_run(AsObjects(tracked_objects'))
    /\ a_calls' = a_calls + 1
    /\ a_resets' = 0
    /\ a_cleared' = NothingCleared
    /\ a_op' = "update_tracks"
    /\ t_op' = "update"

NextRealtime == RealtimeFrame /\ UNCHANGED callVars

\* the tracker and the analyzer as the session constructs them
InitRealtime ==
    /\ BallPossessionAnalyzer(30)
    /\ InitTracker
    /\ NoCalls

SpecRealtime == InitRealtime /\ [][NextRealtime]_vars

\* C39 (as claimed): within one streaming session the frame index handed to
\* update_tracks never decreases from one call to the next, the loop back
\* to the first frame at the end of the video included.
C39_FrameIndexNeverDecreases ==
    [][ (IsUpdateTracks /\ a_frame # <<>>) => a_frame'[1] >= a_frame[1] ]_vars

====
